---- MODULE Spec2Model ----
(***************************************************************************)
(* A model of the MTG Discord bot (src/discord_bot.py):                    *)
(*   - ask_claude, the tool-use loop between the reasoning model and the   *)
(*     tool handlers, together with its caller on_message;                 *)
(*   - get_rules_collection_async, the lazily loaded, process-wide rules   *)
(*     collection and its "single-flight" guard.                          *)
(*                                                                         *)
(* Spec      : one conversation, from on_message to the reply.             *)
(* SpecRules : several coroutines calling get_rules_collection_async.      *)
(***************************************************************************)
EXTENDS Integers, Sequences, FiniteSets, TLC

VARIABLES
    pc,               \* position of the on_message / ask_claude coroutine
    messages,         \* ask_claude's local list `messages` (the transcript)
    iteration,        \* number of iterations of `for _ in range(max_iterations)` begun
    response,         \* ask_claude's local `response` (NoResponse before the first call)
    result,           \* the value ask_claude returned (None while running or after a raise)
    exc,              \* the exception that left ask_claude (None if none)
    reply,            \* what on_message sent with message.reply
    modelCalls,       \* history: number of claude_client.messages.create calls
    dispatched,       \* history: number of tool_use blocks the loop has executed
    modelFailed,      \* history: a call of claude_client.messages.create raised
    raisedBlock,      \* history: the tool_use block whose execution raised (NoBlock if none)
    sent,             \* history: the messages= of the latest claude_client.messages.create call
    rules_collection, \* module global _rules_collection (None or a collection handle)
    rules_loading,    \* module global _rules_loading
    dbExists,         \* RULES_DB_PATH.exists()
    cpc,              \* per caller: position inside get_rules_collection_async
    cret,             \* per caller: value returned by get_rules_collection_async
    tstate,           \* per caller: state of its run_in_executor job
    arrivedDuring,    \* history, per caller: the load in flight when it entered (0 if none)
    startedBy,        \* history, per caller: the load it started (0 if none)
    loadsStarted,     \* history: number of _load_rules_collection_sync runs started
    loadsFailed,      \* history: number of those runs that ended without a collection
    answer,           \* per caller: what discord_bot.mtg_rules_search returned to it
    mcp_rules_collection, \* mtg_mcp.py's module global _rules_collection
    mcpLoads,         \* history: number of load attempts of mtg_mcp.get_rules_collection
    mcpLoadsFailed,   \* history: number of those attempts that ended without a collection
    mcpAnswer,        \* what the last mtg_mcp.mtg_rules_search call returned
    ingestPc,         \* position of rules_ingestion.create_database
    chunks,           \* create_database's argument `chunks`
    persisted,        \* the collection COLLECTION_NAME in the database on disk
    persistedBefore,  \* history: that collection when create_database was called
    batchStart,       \* create_database's loop variable `i` (start of the next batch)
    parsePc,          \* position of rules_ingestion.parse_rules
    rules_content,    \* parse_rules's argument `content`
    parsed,           \* the list parse_rules returned
    contentBefore,    \* history: the text of the parse before the text was edited
    parsedBefore,     \* history: what parse_rules returned for it
    tpc,              \* per task of the bot's event loop: where the task is
    running,          \* the task that holds the event loop's thread (0: the loop is free)
    qpc,              \* position of the rules-search handler that is running
    corpus,           \* the entries of the collection, with their distance to the query
    num_results,      \* the handler's argument num_results
    results,          \* what collection.query returned to the handler
    shown,            \* what the handler returned
    combosPc,         \* position of spellbook_find_combos_in_decklist
    limit,            \* its argument limit
    response_format,  \* its argument response_format (the MCP server's only)
    included,         \* results.included of the find-my-combos response
    almost,           \* results.almost_included of that response
    combosOut,        \* the combos in what the handler returned
    convPc,           \* per conversation: position of its on_message / ask_claude
    convMessages,     \* per conversation: the local list `messages` of its ask_claude
    convIteration,    \* per conversation: iterations of its loop begun
    convResponse,     \* per conversation: its local `response`
    convResult,       \* per conversation: what its ask_claude returned
    convSent,         \* history, per conversation: the messages= of its latest model call
    tools,            \* the names in the module-level list TOOLS
    tool_functions,   \* the keys of the module-level dictionary TOOL_FUNCTIONS
    mainPc,           \* position of rules_ingestion.main
    localFile,        \* MagicCompRules.txt lies next to the script
    downloadFailed,   \* history: download_rules raised in this run
    createCalled      \* history: main called create_database in this run

loopVars  == <<pc, messages, iteration, response, result, exc, reply, modelCalls, dispatched,
               modelFailed, raisedBlock, sent>>
rulesVars == <<rules_collection, rules_loading, dbExists, cpc, cret, tstate,
               arrivedDuring, startedBy, loadsStarted, loadsFailed>>
searchVars == <<answer, mcp_rules_collection, mcpLoads, mcpLoadsFailed, mcpAnswer>>
ingestVars == <<ingestPc, chunks, persisted, persistedBefore, batchStart>>
parseVars  == <<parsePc, rules_content, parsed, contentBefore, parsedBefore>>
taskVars   == <<tpc, running>>
queryVars  == <<qpc, corpus, num_results, results, shown>>
comboVars  == <<combosPc, limit, response_format, included, almost, combosOut>>
convVars   == <<convPc, convMessages, convIteration, convResponse, convResult, convSent>>
registryVars == <<tools, tool_functions>>
mainVars   == <<mainPc, localFile, downloadFailed, createCalled>>
laterVars  == <<queryVars, comboVars, convVars, registryVars, mainVars>>
notLoopVars  == <<rulesVars, searchVars, ingestVars, parseVars, taskVars, laterVars>>
notRulesVars == <<loopVars, searchVars, ingestVars, parseVars, taskVars, laterVars>>
vars == <<loopVars, rulesVars, searchVars, ingestVars, parseVars, taskVars, laterVars>>

None == "None"
NoResponse == [stop_reason |-> None, content |-> << >>]
NoBlock    == [type |-> None]

(***************************************************************************)
(* Bounds of the model.  The code's ceiling is max_iterations = 12         *)
(* (discord_bot.py line 1011); the model runs the same loop with a smaller *)
(* ceiling so that every transcript can be enumerated.                     *)
(***************************************************************************)
max_iterations == 3
NumCallers == 3
MaxMcpLoads == 2
MaxChunks == 5
batch_size == 2
MaxLines == 4
MaxEditedLines == 2
MaxCorpus == 3
MaxResults == 3
MaxLimit == 3
MaxCombos == 3

(***************************************************************************)
(* The tool registry.                                                      *)
(***************************************************************************)
TOOLS ==
    { "scryfall_search_cards", "scryfall_get_card", "scryfall_get_rulings",
      "spellbook_search_combos", "spellbook_find_combos_for_cards",
      "spellbook_find_combos_in_decklist", "spellbook_estimate_bracket",
      "mtg_rules_search" }

\* A dictionary that lacks the handler of a declared tool.
TOOL_FUNCTIONS_Incomplete ==
    { "scryfall_search_cards", "scryfall_get_card", "scryfall_get_rulings",
      "spellbook_search_combos", "spellbook_find_combos_in_decklist",
      "spellbook_estimate_bracket", "mtg_rules_search" }

TOOL_FUNCTIONS ==
    { "scryfall_search_cards", "scryfall_get_card", "scryfall_get_rulings",
      "spellbook_search_combos", "spellbook_find_combos_for_cards",
      "spellbook_find_combos_in_decklist", "spellbook_estimate_bracket",
      "mtg_rules_search" }

(***************************************************************************)
(* What the reasoning model may answer.  A response is a stop_reason and   *)
(* a list of content blocks; a block is a text block or a tool_use block.  *)
(* The arguments of a tool_use block are abstracted to how they relate to  *)
(* the handler's signature.                                                *)
(***************************************************************************)
UserMessages == {"", "q1"}
Texts        == {"t1", "t2"}
InputKinds   == {"valid", "missing_required", "undeclared_arg", "wrong_type"}
Upstream     == {"ok", "fail"}

TextBlock(t)          == [type |-> "text", text |-> t]
ToolUseBlock(i, n, a) == [type |-> "tool_use", id |-> i, name |-> n, input |-> a]

\* Blocks before the API has given the tool_use blocks their ids.
TextShape(t)    == [type |-> "text", text |-> t]
ToolShape(n, a) == [type |-> "tool_use", name |-> n, input |-> a]
Combos(a)       == ToolShape("spellbook_find_combos_for_cards", a)
Unknown         == ToolShape("unknown_tool", "valid")

\* The contents of the turns in which the model stops for tool use: one to
\* three calls, with and without a text block, to a registered tool and to
\* one that is not registered, with arguments that fit the handler's
\* signature and arguments that do not.
ToolTurnContents ==
    { << Combos("valid") >>,
      << TextShape("t1"), Combos("valid") >>,
      << Unknown >>,
      << Combos("valid"), Unknown >>,
      << Unknown, TextShape("t1"), Combos("valid") >>,
      << Combos("valid"), Combos("valid"), Combos("valid") >>,
      << Combos("missing_required") >>,
      << Combos("undeclared_arg") >>,
      << Combos("valid"), Combos("wrong_type"), Combos("valid") >>,
      << Unknown, Combos("wrong_type") >> }

\* The contents of the turns in which it does not: no block at all, text
\* blocks, and a tool_use block left in a turn that ended for another
\* reason (a response cut short by max_tokens).
FinalTurnContents ==
    { << >>,
      << TextShape("t1") >>,
      << TextShape("t1"), TextShape("t2") >>,
      << TextShape("t2"), TextShape("t1") >>,
      << Combos("valid") >>,
      << Combos("valid"), TextShape("t2") >>,
      << TextShape("t1"), Combos("valid") >> }

\* The API gives every tool_use block an id of its own: here the iteration
\* and the block's place in the response.
WithIds(shape, it) ==
    [ i \in 1..Len(shape) |->
        IF shape[i].type = "tool_use"
        THEN ToolUseBlock(<<it, i>>, shape[i].name, shape[i].input)
        ELSE TextBlock(shape[i].text) ]

IsToolUse(block) == block.type = "tool_use"
HasText(block)   == "text" \in DOMAIN block

ToolUsePositions(content) == { i \in 1..Len(content) : IsToolUse(content[i]) }

\* The responses the API can give at iteration `it`.
ToolUseResponses(it) ==
    { [stop_reason |-> "tool_use", content |-> WithIds(c, it)] : c \in ToolTurnContents }

FinalResponses(it) ==
    { [stop_reason |-> sr, content |-> WithIds(c, it)] :
        sr \in {"end_turn", "max_tokens"}, c \in FinalTurnContents }

(***************************************************************************)
(* The tool handlers.  A call either returns a string or raises.           *)
(***************************************************************************)
Return(v) == [raised |-> FALSE, value |-> v, exc |-> None]
Raise(e)  == [raised |-> TRUE, value |-> None, exc |-> e]

\* spellbook_search_combos: the whole body is inside try / except Exception,
\* so an upstream failure comes back as text.
spellbook_search_combos(upstream) ==
    IF upstream = "ok"
    THEN Return("Found combos")
    ELSE Return("Error searching combos: upstream failure")

\* spellbook_find_combos_for_cards: the list comprehension over `cards` is
\* outside any try; a `cards` that cannot be iterated raises TypeError.
spellbook_find_combos_for_cards(input, upstream) ==
    IF input = "wrong_type"
    THEN Raise("TypeError")
    ELSE spellbook_search_combos(upstream)

\* `await func(**tool_input)`: Python binds the keyword arguments first; a
\* missing required argument or an unexpected keyword raises TypeError.
CallHandler(name, input, upstream) ==
    IF input \in {"missing_required", "undeclared_arg"}
    THEN Raise("TypeError")
    ELSE CASE name = "spellbook_find_combos_for_cards" ->
                spellbook_find_combos_for_cards(input, upstream)

\* A lookup `TOOL_FUNCTIONS[tool_name]` without the membership test.
ExecuteToolNoLookup(name, input, upstream) ==
    IF name \in TOOL_FUNCTIONS
    THEN CallHandler(name, input, upstream)
    ELSE Raise("KeyError")

\* Lines 1037-1042: look the tool up, call it, or report it unknown.
ExecuteTool(name, input, upstream) ==
    IF name \in tool_functions
    THEN CallHandler(name, input, upstream)
    ELSE Return("Unknown tool: " \o name)

\* Lines 1044-1048.
ToolResult(tool_id, value) ==
    [type |-> "tool_result", tool_use_id |-> tool_id, content |-> value]

\* A dispatch that appends no result for a tool that is not registered.
RECURSIVE DispatchFromSkipsUnknown(_, _, _, _, _)
DispatchFromSkipsUnknown(content, upstream, i, acc, ran) ==
    IF i > Len(content)
    THEN [raised |-> FALSE, tool_results |-> acc, exc |-> None, ran |-> ran, at |-> NoBlock]
    ELSE IF ~IsToolUse(content[i])
    THEN DispatchFromSkipsUnknown(content, upstream, i + 1, acc, ran)
    ELSE IF content[i].name \notin TOOL_FUNCTIONS
    THEN DispatchFromSkipsUnknown(content, upstream, i + 1, acc, ran + 1)
    ELSE LET out == CallHandler(content[i].name, content[i].input, upstream[i])
         IN  IF out.raised
             THEN [raised |-> TRUE, tool_results |-> acc, exc |-> out.exc, ran |-> ran + 1,
                   at |-> content[i]]
             ELSE DispatchFromSkipsUnknown(content, upstream, i + 1,
                      Append(acc, [type |-> "tool_result", tool_use_id |-> content[i].id,
                                   content |-> out.value]), ran + 1)

\* Lines 1025-1048: the for loop over response.content from block i on, with
\* `acc` the tool_results so far and `ran` the number of blocks executed.
RECURSIVE DispatchFrom(_, _, _, _, _)
DispatchFrom(content, upstream, i, acc, ran) ==
    IF i > Len(content)
    THEN [raised |-> FALSE, tool_results |-> acc, exc |-> None, ran |-> ran, at |-> NoBlock]
    ELSE IF ~IsToolUse(content[i])
    THEN DispatchFrom(content, upstream, i + 1, acc, ran)
    ELSE LET out == ExecuteTool(content[i].name, content[i].input, upstream[i])
         IN  IF out.raised
             THEN [raised |-> TRUE, tool_results |-> acc, exc |-> out.exc, ran |-> ran + 1,
                   at |-> content[i]]
             ELSE DispatchFrom(content, upstream, i + 1,
                               Append(acc, ToolResult(content[i].id, out.value)), ran + 1)

\* A dispatch that puts each new result in front of the earlier ones.
RECURSIVE Reversed(_)
Reversed(seq) == IF seq = << >> THEN << >> ELSE Append(Reversed(Tail(seq)), Head(seq))

DispatchNewestFirst(content, upstream) ==
    LET d == DispatchFrom(content, upstream, 1, <<>>, 0)
    IN  [d EXCEPT !.tool_results = Reversed(d.tool_results)]

Dispatch(content, upstream) == DispatchFrom(content, upstream, 1, <<>>, 0)

\* The upstream service answers or fails for each call that reaches it.
ReachesUpstream(block) ==
    /\ IsToolUse(block)
    /\ block.name \in TOOL_FUNCTIONS
    /\ block.input = "valid"

UpstreamChoices(content) ==
    { u \in [1..Len(content) -> Upstream] :
        \A i \in 1..Len(content) : ~ReachesUpstream(content[i]) => u[i] = "ok" }

(***************************************************************************)
(* ask_claude and on_message.                                              *)
(***************************************************************************)
NoTextPlaceholder == "I couldn't generate a response."
ExhaustedFallback == "I got stuck in a loop trying to answer. Please try rephrasing your question."
ApiErrorApology   == "Sorry, I encountered an API error"
GenericApology    == "Sorry, something went wrong while processing your question."

UserText(m)          == [role |-> "user", content |-> m]
AssistantTurn(c)     == [role |-> "assistant", content |-> c]
ToolResultsMsg(trs)  == [role |-> "user", content |-> trs]

\* A loop that runs its body once more than the ceiling allows.
LoopContinuesOffByOne(it) == it <= max_iterations

\* Line 1012: `for _ in range(max_iterations)` runs the body again while
\* fewer than max_iterations iterations have begun.
LoopContinues(it) == it < max_iterations

\* Lines 1056-1060: the text of the first block that has one.
RECURSIVE FirstText(_, _)
FirstText(content, i) ==
    IF i > Len(content) THEN NoTextPlaceholder
    ELSE IF HasText(content[i]) THEN content[i].text
    ELSE FirstText(content, i + 1)

\* The text of the last block that has one.
RECURSIVE LastText(_, _)
LastText(content, i) ==
    IF i < 1 THEN NoTextPlaceholder
    ELSE IF HasText(content[i]) THEN content[i].text
    ELSE LastText(content, i - 1)

FinalTextLast(content) == LastText(content, Len(content))

FinalText(content) == FirstText(content, 1)

\* on_message, lines 1129-1146: reply with the answer, or with an apology
\* when ask_claude raised.
ReplyFor(value, e) ==
    IF e = None THEN <<value>>
    ELSE IF e = "APIError" THEN <<ApiErrorApology>>
    ELSE <<GenericApology>>

\* A transcript that gets the tool results before the turn they answer.
AppendTurnResultsFirst(msgs, content, tool_results) ==
    msgs \o << ToolResultsMsg(tool_results), AssistantTurn(content) >>

\* Lines 1050-1052.
AppendTurn(msgs, content, tool_results) ==
    msgs \o << AssistantTurn(content), ToolResultsMsg(tool_results) >>

\* on_message up to the call of ask_claude and its line 1008.
OnMessage(m) ==
    /\ pc = "Idle"
    /\ IF m = ""
       THEN /\ pc' = "Ignored"
            /\ UNCHANGED messages
       ELSE /\ pc' = "AwaitingModel"
            /\ messages' = << UserText(m) >>
    /\ UNCHANGED <<iteration, response, result, exc, reply, modelCalls, dispatched,
                   modelFailed, raisedBlock, sent>>
    /\ UNCHANGED notLoopVars

\* A loop that swallows the provider's failure and returns an empty answer.
ModelCallFailsSwallowed ==
    /\ pc = "AwaitingModel"
    /\ iteration' = iteration + 1
    /\ modelCalls' = modelCalls + 1
    /\ sent' = messages
    /\ pc' = "Done"
    /\ result' = ""
    /\ modelFailed' = TRUE
    /\ reply' = ReplyFor("", None)
    /\ UNCHANGED <<messages, response, exc, dispatched, raisedBlock>>
    /\ UNCHANGED notLoopVars

\* One iteration in which claude_client.messages.create raises.
ModelCallFails ==
    /\ pc = "AwaitingModel"
    /\ iteration' = iteration + 1
    /\ modelCalls' = modelCalls + 1
    /\ sent' = messages
    /\ pc' = "Failed"
    /\ exc' = "APIError"
    /\ modelFailed' = TRUE
    /\ reply' = ReplyFor(None, "APIError")
    /\ UNCHANGED <<messages, response, result, dispatched, raisedBlock>>
    /\ UNCHANGED notLoopVars

\* A loop that, at its ceiling, gives up before it runs the turn's tools.
ToolUseIterationGivesUpEarly(r, up) ==
    /\ pc = "AwaitingModel"
    /\ r.stop_reason = "tool_use"
    /\ LET d == Dispatch(r.content, up)
       IN  /\ ~d.raised
           /\ iteration' = iteration + 1
           /\ modelCalls' = modelCalls + 1
           /\ sent' = messages
           /\ response' = r
           /\ IF LoopContinues(iteration + 1)
              THEN /\ pc' = "AwaitingModel"
                   /\ dispatched' = dispatched + d.ran
                   /\ messages' = AppendTurn(messages, r.content, d.tool_results)
                   /\ UNCHANGED <<result, reply>>
              ELSE /\ pc' = "Exhausted"
                   /\ result' = ExhaustedFallback
                   /\ reply' = ReplyFor(ExhaustedFallback, None)
                   /\ UNCHANGED <<dispatched, messages>>
    /\ UNCHANGED <<exc, modelFailed, raisedBlock>>
    /\ UNCHANGED notLoopVars

\* One iteration in which the model asks for tools and every handler returns.
ToolUseIteration(r, up) ==
    /\ pc = "AwaitingModel"
    /\ r.stop_reason = "tool_use"
    /\ LET d == Dispatch(r.content, up)
       IN  /\ ~d.raised
           /\ iteration' = iteration + 1
           /\ modelCalls' = modelCalls + 1
           /\ sent' = messages
           /\ response' = r
           /\ dispatched' = dispatched + d.ran
           /\ messages' = AppendTurn(messages, r.content, d.tool_results)
           /\ IF LoopContinues(iteration + 1)
              THEN /\ pc' = "AwaitingModel"
                   /\ UNCHANGED <<result, reply>>
              ELSE /\ pc' = "Exhausted"
                   /\ result' = ExhaustedFallback
                   /\ reply' = ReplyFor(ExhaustedFallback, None)
    /\ UNCHANGED <<exc, modelFailed, raisedBlock>>
    /\ UNCHANGED notLoopVars

\* One iteration in which the model asks for tools and a handler raises.
ToolUseRaises(r, up) ==
    /\ pc = "AwaitingModel"
    /\ r.stop_reason = "tool_use"
    /\ LET d == Dispatch(r.content, up)
       IN  /\ d.raised
           /\ iteration' = iteration + 1
           /\ modelCalls' = modelCalls + 1
           /\ sent' = messages
           /\ response' = r
           /\ dispatched' = dispatched + d.ran
           /\ pc' = "Failed"
           /\ exc' = d.exc
           /\ raisedBlock' = d.at
           /\ reply' = ReplyFor(None, d.exc)
    /\ UNCHANGED <<messages, result, modelFailed>>
    /\ UNCHANGED notLoopVars

\* A loop that looks for tool_use blocks instead of the stop reason.
FinalIterationByContent(r) ==
    /\ pc = "AwaitingModel"
    /\ r.stop_reason # "tool_use"
    /\ iteration' = iteration + 1
    /\ modelCalls' = modelCalls + 1
    /\ sent' = messages
    /\ response' = r
    /\ IF ToolUsePositions(r.content) = {}
       THEN /\ pc' = "Done"
            /\ result' = FinalText(r.content)
            /\ reply' = ReplyFor(FinalText(r.content), None)
            /\ UNCHANGED <<messages, dispatched>>
       ELSE LET d == Dispatch(r.content, [i \in 1..Len(r.content) |-> "ok"])
            IN  /\ dispatched' = dispatched + d.ran
                /\ messages' = AppendTurn(messages, r.content, d.tool_results)
                /\ pc' = "Exhausted"
                /\ result' = ExhaustedFallback
                /\ reply' = ReplyFor(ExhaustedFallback, None)
    /\ UNCHANGED <<exc, modelFailed, raisedBlock>>
    /\ UNCHANGED notLoopVars

\* One iteration in which the model does not stop for tool use.
FinalIteration(r) ==
    /\ pc = "AwaitingModel"
    /\ r.stop_reason # "tool_use"
    /\ iteration' = iteration + 1
    /\ modelCalls' = modelCalls + 1
    /\ sent' = messages
    /\ response' = r
    /\ pc' = "Done"
    /\ result' = FinalText(r.content)
    /\ reply' = ReplyFor(FinalText(r.content), None)
    /\ UNCHANGED <<messages, exc, dispatched, modelFailed, raisedBlock>>
    /\ UNCHANGED notLoopVars

(***************************************************************************)
(* The rules collection: _load_rules_collection_sync runs in a pool        *)
(* thread, get_rules_collection_async in the event loop.  The coroutines   *)
(* of the event loop run one at a time and give way only at an await, so   *)
(* each action below is the code between two awaits.                       *)
(***************************************************************************)
Callers == 1..NumCallers

NoCollection == << >>
Handle(k)    == << "collection", k >>

\* A loader without the guard of line 249.
LoadUnderWayIgnored == FALSE

\* Line 249: is another load under way?
LoadUnderWay == rules_loading

\* Line 251: the condition of the polling loop.
KeepWaiting == rules_loading /\ rules_collection = NoCollection

\* The load whose thread is running (0 if none).
LoadInFlight ==
    IF \E c \in Callers : tstate[c] = "running"
    THEN startedBy[CHOOSE c \in Callers : tstate[c] = "running"]
    ELSE 0

ReturnToCaller(c, value) ==
    /\ cpc' = [cpc EXCEPT ![c] = "returned"]
    /\ cret' = [cret EXCEPT ![c] = value]

\* Lines 241-242: the collection is cached.
EnterCached(c) ==
    /\ cpc[c] = "idle"
    /\ rules_collection # NoCollection
    /\ ReturnToCaller(c, rules_collection)
    /\ UNCHANGED <<rules_collection, rules_loading, dbExists, tstate,
                   arrivedDuring, startedBy, loadsStarted, loadsFailed>>
    /\ UNCHANGED notRulesVars

\* Lines 245-246: there is no database on disk.
EnterNoDatabase(c) ==
    /\ cpc[c] = "idle"
    /\ rules_collection = NoCollection
    /\ ~dbExists
    /\ ReturnToCaller(c, NoCollection)
    /\ UNCHANGED <<rules_collection, rules_loading, dbExists, tstate,
                   arrivedDuring, startedBy, loadsStarted, loadsFailed>>
    /\ UNCHANGED notRulesVars

\* A caller that looks at the loading flag before it looks at the cache,
\* and waits for the flag alone.
EnterWaitFlagFirst(c) ==
    /\ cpc[c] = "idle"
    /\ dbExists
    /\ LoadUnderWay
    /\ arrivedDuring' = [arrivedDuring EXCEPT ![c] = LoadInFlight]
    /\ cpc' = [cpc EXCEPT ![c] = "waiting"]
    /\ UNCHANGED cret
    /\ UNCHANGED <<rules_collection, rules_loading, dbExists, tstate,
                   startedBy, loadsStarted, loadsFailed>>
    /\ UNCHANGED notRulesVars

\* Lines 249-253: another load is under way; poll until it ends.
EnterWait(c) ==
    /\ cpc[c] = "idle"
    /\ rules_collection = NoCollection
    /\ dbExists
    /\ LoadUnderWay
    /\ arrivedDuring' = [arrivedDuring EXCEPT ![c] = LoadInFlight]
    /\ IF KeepWaiting
       THEN /\ cpc' = [cpc EXCEPT ![c] = "waiting"]
            /\ UNCHANGED cret
       ELSE ReturnToCaller(c, rules_collection)
    /\ UNCHANGED <<rules_collection, rules_loading, dbExists, tstate,
                   startedBy, loadsStarted, loadsFailed>>
    /\ UNCHANGED notRulesVars

\* A loader that does not look at the cached collection first.
EnterLoadUncached(c) ==
    /\ cpc[c] = "idle"
    /\ dbExists
    /\ ~LoadUnderWay
    /\ rules_loading' = TRUE
    /\ cpc' = [cpc EXCEPT ![c] = "loading"]
    /\ tstate' = [tstate EXCEPT ![c] = "running"]
    /\ arrivedDuring' = [arrivedDuring EXCEPT ![c] = LoadInFlight]
    /\ loadsStarted' = loadsStarted + 1
    /\ startedBy' = [startedBy EXCEPT ![c] = loadsStarted + 1]
    /\ UNCHANGED <<rules_collection, dbExists, cret, loadsFailed>>
    /\ UNCHANGED notRulesVars

\* Lines 255-261: set the flag and hand the load to the thread pool.
EnterLoad(c) ==
    /\ cpc[c] = "idle"
    /\ rules_collection = NoCollection
    /\ dbExists
    /\ ~LoadUnderWay
    /\ rules_loading' = TRUE
    /\ cpc' = [cpc EXCEPT ![c] = "loading"]
    /\ tstate' = [tstate EXCEPT ![c] = "running"]
    /\ arrivedDuring' = [arrivedDuring EXCEPT ![c] = LoadInFlight]
    /\ loadsStarted' = loadsStarted + 1
    /\ startedBy' = [startedBy EXCEPT ![c] = loadsStarted + 1]
    /\ UNCHANGED <<rules_collection, dbExists, cret, loadsFailed>>
    /\ UNCHANGED notRulesVars

\* _load_rules_collection_sync in its thread: it stores the collection in
\* the global, or ends without one (no database, or chromadb raised).
LoadSync(c) ==
    /\ tstate[c] = "running"
    /\ tstate' = [tstate EXCEPT ![c] = "done"]
    /\ \E loaded \in BOOLEAN :
         IF dbExists /\ loaded
         THEN /\ rules_collection' = Handle(startedBy[c])
              /\ UNCHANGED loadsFailed
         ELSE /\ loadsFailed' = loadsFailed + 1
              /\ UNCHANGED rules_collection
    /\ UNCHANGED <<rules_loading, dbExists, cpc, cret, arrivedDuring, startedBy, loadsStarted>>
    /\ UNCHANGED notRulesVars

\* The return of line 262 without the finally of lines 263-264: the flag is
\* cleared after a load that cached a collection, and left set otherwise.
LoadReturnsNoFinally(c) ==
    /\ cpc[c] = "loading"
    /\ tstate[c] = "done"
    /\ ReturnToCaller(c, rules_collection)
    /\ rules_loading' = (rules_collection = NoCollection)
    /\ UNCHANGED <<rules_collection, dbExists, tstate, arrivedDuring, startedBy,
                   loadsStarted, loadsFailed>>
    /\ UNCHANGED notRulesVars

\* Lines 262-264: the await of the executor ends; return, and reset the flag.
LoadReturns(c) ==
    /\ cpc[c] = "loading"
    /\ tstate[c] = "done"
    /\ ReturnToCaller(c, rules_collection)
    /\ rules_loading' = FALSE
    /\ UNCHANGED <<rules_collection, dbExists, tstate, arrivedDuring, startedBy,
                   loadsStarted, loadsFailed>>
    /\ UNCHANGED notRulesVars

\* Lines 251-253: asyncio.sleep(0.5) ends; test the condition again.
Poll(c) ==
    /\ cpc[c] = "waiting"
    /\ IF KeepWaiting
       THEN UNCHANGED <<cpc, cret>>
       ELSE ReturnToCaller(c, rules_collection)
    /\ UNCHANGED <<rules_collection, rules_loading, dbExists, tstate, arrivedDuring,
                   startedBy, loadsStarted, loadsFailed>>
    /\ UNCHANGED notRulesVars

\* rules_ingestion.py is run while the bot is up: the database appears.
DatabaseCreated ==
    /\ ~dbExists
    /\ dbExists' = TRUE
    /\ UNCHANGED <<rules_collection, rules_loading, cpc, cret, tstate, arrivedDuring,
                   startedBy, loadsStarted, loadsFailed>>
    /\ UNCHANGED notRulesVars

(***************************************************************************)
(* The rules-search handlers: discord_bot.mtg_rules_search, which gets the *)
(* collection from get_rules_collection_async, and the MCP server's        *)
(* mtg_rules_search (mtg_mcp.py), which runs in a process of its own with  *)
(* a global of its own and loads the collection synchronously.             *)
(***************************************************************************)
\* What collection.query does: documents, no document, or an exception.
QueryOutcomes == {"documents", "empty", "raises"}

NoAnswer == [raised |-> FALSE, value |-> None, exc |-> None]

RulesNotAvailable == "Rules database not available. Run rules_ingestion.py to set it up."
NoRulesFound      == "No relevant rules found."
RulesFound        == "**rule_num**: text"
ErrorSearching    == "Error searching rules: query failure"

\* discord_bot.mtg_rules_search without the try around the query.
mtg_rules_search_unguarded(collection, q) ==
    IF collection = NoCollection THEN Return(RulesNotAvailable)
    ELSE IF q = "raises" THEN Raise("Exception")
    ELSE IF q = "empty" THEN Return(NoRulesFound)
    ELSE Return(RulesFound)

\* discord_bot.mtg_rules_search, lines 836-867, from the collection that
\* get_rules_collection_async returned.
mtg_rules_search(collection, q) ==
    IF collection = NoCollection THEN Return(RulesNotAvailable)
    ELSE IF q = "raises" THEN Return(ErrorSearching)
    ELSE IF q = "empty" THEN Return(NoRulesFound)
    ELSE Return(RulesFound)

\* Lines 836-867: the handler goes on after get_rules_collection_async.
RulesSearchQuery(c, q) ==
    /\ cpc[c] = "returned"
    /\ cpc' = [cpc EXCEPT ![c] = "answered"]
    /\ answer' = [answer EXCEPT ![c] = mtg_rules_search(cret[c], q)]
    /\ UNCHANGED <<rules_collection, rules_loading, dbExists, cret, tstate, arrivedDuring,
                   startedBy, loadsStarted, loadsFailed>>
    /\ UNCHANGED <<mcp_rules_collection, mcpLoads, mcpLoadsFailed, mcpAnswer>>
    /\ UNCHANGED <<loopVars, ingestVars, parseVars, taskVars, laterVars>>

McpRulesNotFound   == "**Rules database not found.**"
McpNoRulesFound    == "**No relevant rules found for:** query"
McpRulesFound      == "**Relevant rules for:** query"
McpErrorSearching  == "**Error searching rules:** query failure"

\* mtg_mcp.get_rules_collection, lines 63-98: the collection it returns and
\* whether it tried to load one.
get_rules_collection(loaded) ==
    IF mcp_rules_collection # NoCollection
    THEN [collection |-> mcp_rules_collection, attempted |-> FALSE]
    ELSE IF ~dbExists
    THEN [collection |-> NoCollection, attempted |-> FALSE]
    ELSE IF loaded
    THEN [collection |-> Handle(mcpLoads + 1), attempted |-> TRUE]
    ELSE [collection |-> NoCollection, attempted |-> TRUE]

\* mtg_mcp.mtg_rules_search, lines 1338-1384.
mcp_mtg_rules_search(collection, q) ==
    IF collection = NoCollection THEN Return(McpRulesNotFound)
    ELSE IF q = "raises" THEN Return(McpErrorSearching)
    ELSE IF q = "empty" THEN Return(McpNoRulesFound)
    ELSE Return(McpRulesFound)

\* One call of the MCP tool.  Nothing in it awaits, so it is one step.
McpRulesSearch(loaded, q) ==
    LET got == get_rules_collection(loaded)
    IN  /\ got.attempted => mcpLoads < MaxMcpLoads
        /\ mcpLoads' = IF got.attempted THEN mcpLoads + 1 ELSE mcpLoads
        /\ mcpLoadsFailed' = IF got.attempted /\ got.collection = NoCollection
                             THEN mcpLoadsFailed + 1 ELSE mcpLoadsFailed
        /\ mcp_rules_collection' = IF got.attempted THEN got.collection
                                   ELSE mcp_rules_collection
        /\ mcpAnswer' = mcp_mtg_rules_search(got.collection, q)
        /\ UNCHANGED <<answer, rulesVars, loopVars, ingestVars, parseVars, taskVars, laterVars>>

(***************************************************************************)
(* rules_ingestion.create_database: the rebuild of the persisted           *)
(* collection.  Every chromadb call is a step of its own, and every one    *)
(* of them can raise (disk, embedding model, interrupt).  The code's       *)
(* batch_size is 100; the model uses a smaller one on shorter chunk lists. *)
(***************************************************************************)
Generations == {"old", "new"}

\* A chunk as parse_rules makes it; the generation tells the text of one
\* rules document from the text of another.
Chunk(gen, k) ==
    [rule_number |-> k, text |-> <<gen, k>>, section |-> "s", section_name |-> ""]

ChunkLists(gen) == { [k \in 1..n |-> Chunk(gen, k)] : n \in 0..MaxChunks }

NoPersisted == [exists |-> FALSE, entries |-> << >>]

\* Lines 215-222: the id, document and metadata of chunk i (i counts from 0).
Entry(i, chunk) ==
    [id |-> "rule_" \o ToString(i),
     document |-> chunk.text,
     metadata |-> [rule_number |-> chunk.rule_number,
                   section |-> chunk.section,
                   section_name |-> chunk.section_name]]

EntriesOf(cs) == [k \in 1..Len(cs) |-> Entry(k - 1, cs[k])]

Min(a, b) == IF a <= b THEN a ELSE b

\* The collections that can be on disk when a rebuild starts.
PersistedStates ==
    {NoPersisted} \cup { [exists |-> TRUE, entries |-> EntriesOf(cs)] : cs \in ChunkLists("old") }

UnchangedByIngest ==
    UNCHANGED <<loopVars, searchVars, parseVars, taskVars, laterVars, rules_collection, rules_loading, cpc, cret, tstate,
                arrivedDuring, startedBy, loadsStarted, loadsFailed>>

\* Lines 180-193: make the directory and open the database.
OpenDatabase ==
    /\ ingestPc = "called"
    /\ ingestPc' = "opened"
    /\ dbExists' = TRUE
    /\ UNCHANGED <<chunks, persisted, persistedBefore, batchStart>>
    /\ UnchangedByIngest

\* Lines 196-200: delete the collection; whatever is raised is swallowed.
DeleteCollection(ok) ==
    /\ ingestPc = "opened"
    /\ ingestPc' = "deleted"
    /\ persisted' = IF persisted.exists /\ ok THEN NoPersisted ELSE persisted
    /\ UNCHANGED <<chunks, persistedBefore, batchStart, dbExists>>
    /\ UnchangedByIngest

\* Lines 203-207: create the collection; it raises if the name is taken.
CreateCollection(ok) ==
    /\ ingestPc = "deleted"
    /\ IF ok /\ ~persisted.exists
       THEN /\ persisted' = [exists |-> TRUE, entries |-> << >>]
            /\ ingestPc' = IF Len(chunks) = 0 THEN "done" ELSE "adding"
       ELSE /\ ingestPc' = "failed"
            /\ UNCHANGED persisted
    /\ batchStart' = 0
    /\ UNCHANGED <<chunks, persistedBefore, dbExists>>
    /\ UnchangedByIngest

\* A batch loop whose slices leave out the last entry of every batch.
AddBatchShort(ok) ==
    /\ ingestPc = "adding"
    /\ LET end == Min(batchStart + batch_size, Len(chunks)) - 1
       IN  IF ok
           THEN /\ persisted' = [persisted EXCEPT !.entries =
                        @ \o SubSeq(EntriesOf(chunks), batchStart + 1, end)]
                /\ batchStart' = batchStart + batch_size
                /\ ingestPc' = IF batchStart + batch_size < Len(chunks)
                               THEN "adding" ELSE "done"
           ELSE /\ ingestPc' = "failed"
                /\ UNCHANGED <<persisted, batchStart>>
    /\ UNCHANGED <<chunks, persistedBefore, dbExists>>
    /\ UnchangedByIngest

\* Lines 231-238: one turn of the batch loop, collection.add(ids[i:end], ...).
AddBatch(ok) ==
    /\ ingestPc = "adding"
    /\ LET end == Min(batchStart + batch_size, Len(chunks))
       IN  IF ok
           THEN /\ persisted' = [persisted EXCEPT !.entries =
                        @ \o SubSeq(EntriesOf(chunks), batchStart + 1, end)]
                /\ batchStart' = batchStart + batch_size
                /\ ingestPc' = IF batchStart + batch_size < Len(chunks)
                               THEN "adding" ELSE "done"
           ELSE /\ ingestPc' = "failed"
                /\ UNCHANGED <<persisted, batchStart>>
    /\ UNCHANGED <<chunks, persistedBefore, dbExists>>
    /\ UnchangedByIngest

(***************************************************************************)
(* rules_ingestion.main, lines 248-299: download the rules text (or read   *)
(* the local copy), parse it, and rebuild the collection with              *)
(* create_database.  What parse_rules makes of the text is an input here:  *)
(* any list of chunks, the empty one included.                             *)
(***************************************************************************)
UnchangedByMain ==
    UNCHANGED <<loopVars, rulesVars, searchVars, parseVars, taskVars,
                queryVars, comboVars, convVars, registryVars>>

\* Lines 257-259: download_rules returns the text or raises.
DownloadRules(ok) ==
    /\ mainPc = "started"
    /\ mainPc' = IF ok THEN "content" ELSE "download failed"
    /\ downloadFailed' = ~ok
    /\ UNCHANGED <<localFile, createCalled>>
    /\ UNCHANGED ingestVars
    /\ UnchangedByMain

\* Lines 260-272: the handler of the failed download reads the local file
\* if there is one (read_text can raise), and returns if there is none.
LocalFallback(readable) ==
    /\ mainPc = "download failed"
    /\ mainPc' = IF ~localFile THEN "returned"
                 ELSE IF readable THEN "content" ELSE "raised"
    /\ UNCHANGED <<localFile, downloadFailed, createCalled>>
    /\ UNCHANGED ingestVars
    /\ UnchangedByMain

\* A main that hands whatever parse_rules returned to create_database.
ParseAndCreateUnguarded(cs) ==
    /\ mainPc = "content"
    /\ chunks' = cs
    /\ mainPc' = "creating"
    /\ ingestPc' = "called"
    /\ createCalled' = TRUE
    /\ UNCHANGED <<localFile, downloadFailed>>
    /\ UNCHANGED <<persisted, persistedBefore, batchStart>>
    /\ UnchangedByMain

\* Lines 275-293: parse_rules returns cs; return if it is empty, else call
\* create_database(chunks, DATA_DIR).
ParseAndCreate(cs) ==
    /\ mainPc = "content"
    /\ chunks' = cs
    /\ IF cs = << >>
       THEN /\ mainPc' = "returned"
            /\ UNCHANGED <<ingestPc, createCalled>>
       ELSE /\ mainPc' = "creating"
            /\ ingestPc' = "called"
            /\ createCalled' = TRUE
    /\ UNCHANGED <<localFile, downloadFailed>>
    /\ UNCHANGED <<persisted, persistedBefore, batchStart>>
    /\ UnchangedByMain

\* Lines 293-299: create_database returns, or what it raised leaves main.
MainReturns ==
    /\ mainPc = "creating"
    /\ ingestPc \in {"done", "failed"}
    /\ mainPc' = IF ingestPc = "done" THEN "returned" ELSE "raised"
    /\ UNCHANGED <<localFile, downloadFailed, createCalled>>
    /\ UNCHANGED ingestVars
    /\ UnchangedByMain

(***************************************************************************)
(* What the rules-search handlers do with the collection once they have    *)
(* it: discord_bot.mtg_rules_search lines 839-864 and mtg_mcp's            *)
(* mtg_rules_search lines 1348-1381.  collection.query is chromadb's; it   *)
(* is modelled by what the library documents: the n_results entries        *)
(* nearest to the query, nearest first, all of them when the collection    *)
(* holds fewer, and a ValueError when n_results is not positive.           *)
(* Distances are counted in tenths.                                        *)
(***************************************************************************)
TruncateAt == 500

\* The entries a collection can hold: the rule_number of the metadata, the
\* length of the document, and the distance of its embedding to the query.
RuleEntries ==
    { [rule_number |-> "100.1", chars |-> 40, dist |-> 3],
      [rule_number |-> "100.2", chars |-> 600, dist |-> 7],
      [rule_number |-> "200.1", chars |-> 500, dist |-> 7],
      [rule_number |-> "glossary:Absorb", chars |-> 40, dist |-> 12] }

Corpora == { c \in SUBSET RuleEntries : Cardinality(c) <= MaxCorpus }

NoResults ==
    [raised |-> FALSE, documents |-> << >>, metadatas |-> << >>, distances |-> << >>]

QueryRaises ==
    [raised |-> TRUE, documents |-> << >>, metadatas |-> << >>, distances |-> << >>]

NoShown == [kind |-> "none", text |-> "", lines |-> << >>]
ShownText(t)   == [kind |-> "text", text |-> t, lines |-> << >>]
ShownLines(ls) == [kind |-> "lines", text |-> "", lines |-> ls]

\* The orders in which the index can give its n nearest entries: no entry
\* twice, no entry before a nearer one, and no entry left out that is
\* nearer than one given.  Entries at the same distance come in any order.
Nearest(corp, n) ==
    { es \in [1..n -> corp] :
        /\ \A i, j \in 1..n : es[i] = es[j] => i = j
        /\ \A i, j \in 1..n : i < j => es[i].dist <= es[j].dist
        /\ \A e \in corp : (\A i \in 1..n : es[i] # e) =>
                              \A i \in 1..n : es[i].dist <= e.dist }

\* The dictionary collection.query returns for one query text.
QueryResult(es) ==
    [raised    |-> FALSE,
     documents |-> [i \in 1..Len(es) |-> [of |-> es[i].rule_number, chars |-> es[i].chars]],
     metadatas |-> [i \in 1..Len(es) |-> [rule_number |-> es[i].rule_number]],
     distances |-> [i \in 1..Len(es) |-> es[i].dist]]

\* collection.query(query_texts=[query], n_results=k)
query(corp, k) ==
    IF k <= 0 THEN { QueryRaises }
    ELSE { QueryResult(es) : es \in Nearest(corp, Min(k, Cardinality(corp))) }

\* discord_bot.py line 861: doc[:500] + "..." if len(doc) > 500 else doc
Truncate(doc) ==
    [of |-> doc.of,
     chars |-> IF doc.chars > TruncateAt THEN TruncateAt ELSE doc.chars,
     ellipsis |-> doc.chars > TruncateAt]

\* discord_bot.py line 862: f"**{rule_num}**: {text}"
BotLine(doc, meta) == [rule_num |-> meta.rule_number, text |-> Truncate(doc)]

\* A handler that lists the entries last first.
BotLinesReversed(documents, metadatas) ==
    LET n == Min(Len(documents), Len(metadatas))
    IN  [i \in 1..n |-> BotLine(documents[n + 1 - i], metadatas[n + 1 - i])]

\* discord_bot.py lines 858-862: for doc, meta in zip(documents, metadatas).
BotLines(documents, metadatas) ==
    [i \in 1..Min(Len(documents), Len(metadatas)) |-> BotLine(documents[i], metadatas[i])]

\* discord_bot.py lines 851-867, from what the query gave.
bot_format(res) ==
    IF res.raised THEN ShownText(ErrorSearching)
    ELSE IF res.documents = << >> THEN ShownText(NoRulesFound)
    ELSE ShownLines(BotLines(res.documents, res.metadatas))

\* mtg_mcp.py line 1373: "●●●" if dist < 0.5 else "●●○" if dist < 1.0 else "●○○"
Relevance(dist) == IF dist < 5 THEN "high" ELSE IF dist < 10 THEN "medium" ELSE "lower"

\* mtg_mcp.py lines 1375-1376: f"### {rule_number} {relevance}" and the document.
McpLines(documents, metadatas, distances) ==
    [i \in 1..Min(Len(documents), Min(Len(metadatas), Len(distances))) |->
        [rule_num  |-> metadatas[i].rule_number,
         relevance |-> Relevance(distances[i]),
         text      |-> documents[i]]]

\* mtg_mcp.py lines 1356-1384, from what the query gave.
mcp_format(res) ==
    IF res.raised THEN ShownText(McpErrorSearching)
    ELSE IF res.documents = << >> THEN ShownText(McpNoRulesFound)
    ELSE ShownLines(McpLines(res.documents, res.metadatas, res.distances))

UnchangedByQuery ==
    UNCHANGED <<loopVars, rulesVars, searchVars, ingestVars, parseVars, taskVars, comboVars,
                convVars, registryVars, mainVars>>

\* discord_bot.py lines 841-849: the query, run in the thread pool.
BotQuery(res) ==
    /\ qpc = "bot_called"
    /\ res \in query(corpus, num_results)
    /\ qpc' = "bot_queried"
    /\ results' = res
    /\ UNCHANGED <<corpus, num_results, shown>>
    /\ UnchangedByQuery

\* discord_bot.py lines 851-867: back in the event loop, format and return.
BotFormat ==
    /\ qpc = "bot_queried"
    /\ qpc' = "bot_returned"
    /\ shown' = bot_format(results)
    /\ UNCHANGED <<corpus, num_results, results>>
    /\ UnchangedByQuery

\* mtg_mcp.py lines 1348-1384: query and format, with nothing awaited between.
McpSearch(res) ==
    /\ qpc = "mcp_called"
    /\ res \in query(corpus, num_results)
    /\ qpc' = "mcp_returned"
    /\ results' = res
    /\ shown' = mcp_format(res)
    /\ UNCHANGED <<corpus, num_results>>
    /\ UnchangedByQuery

(***************************************************************************)
(* spellbook_find_combos_in_decklist, in the bot (discord_bot.py lines     *)
(* 717-828) and in the MCP server (mtg_mcp.py lines 1059-1162).  The       *)
(* handler gets the cards of the deck, posts them to find-my-combos and    *)
(* lists the combos of the answer.  The MCP server's limit is validated    *)
(* (1 <= limit <= 20) before the handler runs; the bot's is whatever       *)
(* integer the reasoning model sent.                                       *)
(***************************************************************************)
ResponseFormats == {"markdown", "json"}

ComboList(kind, n) == [k \in 1..n |-> << kind, k >>]

NoCombos == [raised |-> FALSE, complete |-> << >>, almost_complete |-> << >>]

Max(a, b) == IF a >= b THEN a ELSE b

\* seq[:n] in Python: the first n entries, all of them if there are fewer,
\* and for a negative n all but the last -n.
Slice(seq, n) ==
    IF n >= 0 THEN SubSeq(seq, 1, Min(n, Len(seq)))
    ELSE SubSeq(seq, 1, Max(Len(seq) + n, 0))

\* discord_bot.py lines 790-820 and mtg_mcp.py lines 1140-1160: the complete
\* combos up to limit, then the almost complete ones while there is room.
CombosListed(inc, alm, lim) ==
    LET remaining == lim - Len(inc)
    IN  [raised |-> FALSE,
         complete |-> Slice(inc, lim),
         almost_complete |-> IF alm # << >> /\ remaining > 0
                             THEN Slice(alm, remaining) ELSE << >>]

\* mtg_mcp.py lines 1127-1132: the JSON answer.
CombosJson(inc, alm, lim) ==
    [raised |-> FALSE, complete |-> Slice(inc, lim), almost_complete |-> Slice(alm, lim)]

UnchangedByCombos ==
    UNCHANGED <<loopVars, rulesVars, searchVars, ingestVars, parseVars, taskVars, queryVars,
                convVars, registryVars, mainVars>>

\* discord_bot.py lines 717-828: the whole handler; every failure of the
\* upstream service comes back as a text without a combo.
BotFindCombosInDecklist(up) ==
    /\ combosPc = "bot_called"
    /\ combosPc' = "bot_returned"
    /\ combosOut' = IF up = "fail" THEN NoCombos ELSE CombosListed(included, almost, limit)
    /\ UNCHANGED <<limit, response_format, included, almost>>
    /\ UnchangedByCombos

\* mtg_mcp.py lines 1059-1162: the whole handler.
McpFindCombosInDecklist(up) ==
    /\ combosPc = "mcp_called"
    /\ combosPc' = "mcp_returned"
    /\ combosOut' = IF up = "fail" THEN NoCombos
                    ELSE IF response_format = "json"
                    THEN CombosJson(included, almost, limit)
                    ELSE CombosListed(included, almost, limit)
    /\ UNCHANGED <<limit, response_format, included, almost>>
    /\ UnchangedByCombos

(***************************************************************************)
(* Two conversations at once.  on_message runs as a task of its own for    *)
(* every message, and ask_claude's `messages`, `response` and loop counter *)
(* are locals of the call (discord_bot.py lines 1008-1062); the globals    *)
(* that are assigned anywhere are _rules_collection and _rules_loading     *)
(* (lines 200-201, 210, 238).  A conversation gives way to the other where *)
(* a tool handler awaits; a conversation's mtg_rules_search is the call of *)
(* get_rules_collection_async by the caller of the same number.  Here a    *)
(* tool turn holds one call, to the combo search or to the rules search.   *)
(***************************************************************************)
Conversations == {1, 2}

ConvUserMessage(c) == IF c = 1 THEN "q1" ELSE "q2"

Rules == ToolShape("mtg_rules_search", "valid")

ConvToolTurnContents == { << Combos("valid") >>, << Rules >> }

ConvFinalTurnContents == { << TextShape("t1") >> }

\* The ids the API gives are unique over all responses: here the
\* conversation, the iteration and the block's place in the response.
ConvWithIds(c, shape, it) ==
    [ i \in 1..Len(shape) |->
        IF shape[i].type = "tool_use"
        THEN ToolUseBlock(<<c, it, i>>, shape[i].name, shape[i].input)
        ELSE TextBlock(shape[i].text) ]

ConvResponses(c, it) ==
    { [stop_reason |-> "tool_use", content |-> ConvWithIds(c, t, it)] :
        t \in ConvToolTurnContents }
    \cup { [stop_reason |-> "end_turn", content |-> ConvWithIds(c, t, it)] :
        t \in ConvFinalTurnContents }

\* A loop whose transcript is one list for every call of ask_claude.
ConvTranscriptShared(c) == convMessages[1]

\* Line 1020: messages=messages, the local list of this call of ask_claude.
ConvTranscript(c) == convMessages[c]

WantsRules(r) ==
    /\ r.stop_reason = "tool_use"
    /\ \E i \in ToolUsePositions(r.content) : r.content[i].name = "mtg_rules_search"

\* Lines 1037-1042 for the one call of the turn.
ConvExecute(c, block, up) ==
    IF block.name = "mtg_rules_search" THEN answer[c]
    ELSE ExecuteTool(block.name, block.input, up)

\* The conversation's handler is inside mtg_rules_search.
ConvInRules(c) == convPc[c] = "DispatchingTools" /\ WantsRules(convResponse[c])

UnchangedByConversation ==
    UNCHANGED <<loopVars, rulesVars, searchVars, ingestVars, parseVars, taskVars, queryVars,
                comboVars, registryVars, mainVars>>

\* on_message up to the call of ask_claude and its line 1008.
ConvOnMessage(c) ==
    /\ convPc[c] = "Idle"
    /\ convPc' = [convPc EXCEPT ![c] = "AwaitingModel"]
    /\ convMessages' = [convMessages EXCEPT ![c] = << UserText(ConvUserMessage(c)) >>]
    /\ UNCHANGED <<convIteration, convResponse, convResult, convSent>>
    /\ UnchangedByConversation

\* Lines 1014-1024 and 1054-1060: the model is called with the transcript;
\* it answers with a final turn, or with a tool turn whose handler is then
\* awaited.
ConvModelCall(c, r) ==
    /\ convPc[c] = "AwaitingModel"
    /\ WantsRules(r) => cpc[c] = "idle"
    /\ convSent' = [convSent EXCEPT ![c] = ConvTranscript(c)]
    /\ convIteration' = [convIteration EXCEPT ![c] = @ + 1]
    /\ convResponse' = [convResponse EXCEPT ![c] = r]
    /\ IF r.stop_reason = "tool_use"
       THEN /\ convPc' = [convPc EXCEPT ![c] = "DispatchingTools"]
            /\ UNCHANGED convResult
       ELSE /\ convPc' = [convPc EXCEPT ![c] = "Done"]
            /\ convResult' = [convResult EXCEPT ![c] = FinalText(r.content)]
    /\ UNCHANGED convMessages
    /\ UnchangedByConversation

\* Lines 1014-1020: the call of the model raises.
ConvModelCallFails(c) ==
    /\ convPc[c] = "AwaitingModel"
    /\ convSent' = [convSent EXCEPT ![c] = ConvTranscript(c)]
    /\ convIteration' = [convIteration EXCEPT ![c] = @ + 1]
    /\ convPc' = [convPc EXCEPT ![c] = "Failed"]
    /\ UNCHANGED <<convMessages, convResponse, convResult>>
    /\ UnchangedByConversation

\* Lines 1040-1052 and 1012, 1062: the handler's await ends; the turn and
\* its result are appended and the loop goes round, or is at its ceiling.
ConvToolReturns(c, up) ==
    /\ convPc[c] = "DispatchingTools"
    /\ WantsRules(convResponse[c]) => cpc[c] = "answered"
    /\ LET block == convResponse[c].content[1]
           out   == ConvExecute(c, block, up)
       IN  convMessages' = [convMessages EXCEPT ![c] =
               AppendTurn(@, convResponse[c].content, << ToolResult(block.id, out.value) >>)]
    /\ IF LoopContinues(convIteration[c])
       THEN /\ convPc' = [convPc EXCEPT ![c] = "AwaitingModel"]
            /\ UNCHANGED convResult
       ELSE /\ convPc' = [convPc EXCEPT ![c] = "Exhausted"]
            /\ convResult' = [convResult EXCEPT ![c] = ExhaustedFallback]
    /\ UNCHANGED <<convIteration, convResponse, convSent>>
    /\ UnchangedByConversation

(***************************************************************************)
(* rules_ingestion.parse_rules.  A text is a sequence of tokens: a token   *)
(* is a string without a newline in it, or one whitespace character.  The  *)
(* three patterns of parse_rules are matched on the tokens as the regular  *)
(* expressions match on the characters: with the tokens below, no pattern  *)
(* can begin or end inside a token.                                        *)
(***************************************************************************)
SP == " "
NL == "\n"

NumberTokens == {"100.1", "100.2", "200.1"}    \* \d{3}\.\d+[a-z]?
HeaderTokens == {"100."}                       \* \d{3}\.
TermTokens   == {"General", "Rules", "Glossary", "Absorb", "Banding", "Credits"}
                                               \* [A-Z][A-Za-z\s,'-]+ all through
LowerTokens  == {"short", "continues here"}    \* [a-z][A-Za-z\s,'-]+ all through
CapTextTokens ==                               \* [A-Z] first, and a "." in it
    {"The Magic rules apply.", "A two-player game begins.",
     "A keyword ability that prevents damage.", "Too short.",
     "Magic was designed by Richard Garfield."}

IsWs(t)      == t \in {SP, NL}
StartsUpper(t) == t \in TermTokens \cup CapTextTokens
InTermClass(t) == t \in TermTokens \cup LowerTokens \cup {SP, NL}

\* rule_number.split('.')[0]
SectionOf(n) ==
    CASE n \in {"100.1", "100.2", "100."} -> "100"
      [] n = "200.1" -> "200"

\* The lines (and pairs of lines) that the texts are made of.
Lines ==
    { << "100.", SP, "General" >>,
      << "100.", SP, "General", SP, SP, "Rules" >>,
      << "100.1", SP, "The Magic rules apply." >>,
      << "100.2", SP, "short" >>,
      << "200.1", SP, "A two-player game begins." >>,
      << "continues here" >>,
      << "Glossary" >>,
      << "Absorb", NL, "A keyword ability that prevents damage." >>,
      << "Banding", NL, "Too short." >>,
      << "Credits", NL, "Magic was designed by Richard Garfield." >> }

RECURSIVE JoinLines(_)
JoinLines(ls) ==
    IF ls = << >> THEN << >>
    ELSE IF Len(ls) = 1 THEN ls[1]
    ELSE ls[1] \o << NL >> \o JoinLines(Tail(ls))

ContentsOf(max) == { JoinLines(ls) : ls \in UNION { [1..n -> Lines] : n \in 0..max } }

Contents == ContentsOf(MaxLines)

\* len(...) of a text.
RECURSIVE StrLen(_)
StrLen(toks) == IF toks = << >> THEN 0 ELSE Len(Head(toks)) + StrLen(Tail(toks))

\* str.strip()
RECURSIVE Strip(_)
Strip(toks) ==
    IF toks = << >> THEN << >>
    ELSE IF IsWs(Head(toks)) THEN Strip(Tail(toks))
    ELSE IF IsWs(toks[Len(toks)]) THEN Strip(SubSeq(toks, 1, Len(toks) - 1))
    ELSE toks

\* re.sub(r'\s+', ' ', text): every run of whitespace becomes one space.
RECURSIVE CollapseWs(_)
CollapseWs(toks) ==
    IF toks = << >> THEN << >>
    ELSE IF IsWs(Head(toks))
    THEN IF Len(toks) > 1 /\ IsWs(toks[2])
         THEN CollapseWs(Tail(toks))
         ELSE << SP >> \o CollapseWs(Tail(toks))
    ELSE << Head(toks) >> \o CollapseWs(Tail(toks))

\* ^ under re.MULTILINE
LineStart(d, i) == i = 1 \/ d[i - 1] = NL

\* The least member of a non-empty set of positions, or `none` for an empty one.
First(S, none) == IF S = {} THEN none ELSE CHOOSE i \in S : \A j \in S : i <= j
Last(S, none)  == IF S = {} THEN none ELSE CHOOSE i \in S : \A j \in S : j <= i

\* The first position after i that holds no whitespace (Len(d) + 1 if none).
SkipWs(d, i) == First({ j \in (i + 1)..Len(d) : ~IsWs(d[j]) }, Len(d) + 1)

\* The last position of the line that position i is on.
LineEnd(d, i) == First({ j \in i..Len(d) : d[j] = NL }, Len(d) + 1) - 1

\* Line 92, header_pattern ^(\d{3})\.\s+([A-Z][^\n]+) matches at i.
HeaderAt(d, i) ==
    /\ LineStart(d, i)
    /\ d[i] \in HeaderTokens
    /\ i + 1 <= Len(d)
    /\ IsWs(d[i + 1])
    /\ SkipWs(d, i) <= Len(d)
    /\ StartsUpper(d[SkipWs(d, i)])

\* Line 95: match.group(2).strip(), the rest of the line the title begins on.
HeaderTitle(d, i) == Strip(SubSeq(d, SkipWs(d, i), LineEnd(d, SkipWs(d, i))))

\* A parser that knows no header.
section_headers_missing(d, section) == << >>

\* Lines 91-96 and 122: section_headers.get(section, ""); of two headers of
\* one section the later one stays in the dictionary.
section_headers(d, section) ==
    LET at == Last({ i \in 1..Len(d) : HeaderAt(d, i) /\ SectionOf(d[i]) = section }, 0)
    IN  IF at = 0 THEN << >> ELSE HeaderTitle(d, at)

\* Line 101, the lookahead ^\d{3}\.\d+[a-z]?\s holds at i.
RuleAheadAt(d, i) ==
    /\ LineStart(d, i)
    /\ d[i] \in NumberTokens
    /\ i + 1 <= Len(d)
    /\ IsWs(d[i + 1])

\* Line 101, rule_pattern matches at i: after the whitespace, group 2 needs
\* one character at least.
RuleAt(d, i) == RuleAheadAt(d, i) /\ i + 2 <= Len(d)

\* Where group 2 begins: \s+ takes all the whitespace, and gives the last
\* character of it back when nothing else is left for (.+?).
RuleBodyStart(d, i) == IF SkipWs(d, i) <= Len(d) THEN SkipWs(d, i) ELSE Len(d)

\* Where group 2 ends: (.+?) takes one character and then goes on to the
\* first place where the lookahead holds, or to the end of the text.
RuleBodyEnd(d, i) ==
    First({ p \in (RuleBodyStart(d, i) + 1)..Len(d) : RuleAheadAt(d, p) }, Len(d) + 1) - 1

\* Line 106, rule_pattern.finditer(content) from position `from` on: the
\* matches do not overlap, the search goes on where the last match ended.
RECURSIVE RuleMatches(_, _)
RuleMatches(d, from) ==
    LET i == First({ j \in from..Len(d) : RuleAt(d, j) }, 0)
    IN  IF i = 0 THEN << >>
        ELSE << [rule_number |-> d[i],
                 body |-> SubSeq(d, RuleBodyStart(d, i), RuleBodyEnd(d, i))] >>
             \o RuleMatches(d, RuleBodyEnd(d, i) + 1)

\* Lines 117 and 156: the least length of a body that is kept.
MinBodyLength == 20

\* A threshold that also drops the bodies of exactly the least length.
TooShortInclusive(text) == StrLen(text) <= MinBodyLength

\* Lines 117 and 156: len(text) < 20
TooShort(text) == StrLen(text) < MinBodyLength

\* Lines 107-133: the chunk of one match.
RuleChunk(d, m) ==
    LET section      == SectionOf(m.rule_number)
        rule_text    == CollapseWs(Strip(m.body))
        section_name == section_headers(d, section)
    IN  [rule_number  |-> << m.rule_number >>,
         text         |-> IF section_name # << >>
                          THEN section_name \o << SP, "(" \o section \o "):", SP >> \o rule_text
                          ELSE rule_text,
         section      |-> section,
         section_name |-> section_name]

RECURSIVE RuleChunks(_, _)
RuleChunks(d, ms) ==
    IF ms = << >> THEN << >>
    ELSE IF TooShort(CollapseWs(Strip(Head(ms).body)))
    THEN RuleChunks(d, Tail(ms))
    ELSE << RuleChunk(d, Head(ms)) >> \o RuleChunks(d, Tail(ms))

\* Lines 137-139: content[content.find("Glossary"):], from the first token
\* that has the word in it (<< >> if there is none).
GlossaryContent(d) ==
    LET at == First({ i \in 1..Len(d) : d[i] = "Glossary" }, 0)
    IN  IF at = 0 THEN << >> ELSE SubSeq(d, at, Len(d))

\* The last position of the run of [A-Za-z\s,'-] tokens that begins at i.
ClassRunEnd(g, i) == First({ j \in i..Len(g) : ~InTermClass(g[j]) }, Len(g) + 1) - 1

\* Line 144, the lookahead ^[A-Z][A-Za-z\s,'-]+\n holds at i.
TermAheadAt(g, i) ==
    /\ LineStart(g, i)
    /\ g[i] \in TermTokens
    /\ \E n \in (i + 1)..ClassRunEnd(g, i) : g[n] = NL

\* The \n that ends group 1 of a match at i: group 1 is greedy and its class
\* has the newline in it, so it is the last newline of the run that has
\* something after it for (.+?) (0 if there is none).
TermNewline(g, i) ==
    Last({ n \in (i + 1)..ClassRunEnd(g, i) : g[n] = NL /\ n < Len(g) }, 0)

\* Line 144, glossary_pattern matches at i.
TermAt(g, i) ==
    /\ LineStart(g, i)
    /\ g[i] \in TermTokens
    /\ TermNewline(g, i) # 0

DefinitionEnd(g, i) ==
    First({ p \in (TermNewline(g, i) + 2)..Len(g) : TermAheadAt(g, p) }, Len(g) + 1) - 1

\* Line 148, glossary_pattern.finditer(glossary_content) from `from` on.
RECURSIVE TermMatches(_, _)
TermMatches(g, from) ==
    LET i == First({ j \in from..Len(g) : TermAt(g, j) }, 0)
    IN  IF i = 0 THEN << >>
        ELSE << [term |-> Strip(SubSeq(g, i, TermNewline(g, i) - 1)),
                 definition |-> CollapseWs(Strip(SubSeq(g, TermNewline(g, i) + 1,
                                                        DefinitionEnd(g, i))))] >>
             \o TermMatches(g, DefinitionEnd(g, i) + 1)

\* Lines 159-163: the chunk of one glossary match.
GlossaryChunk(m) ==
    [rule_number |-> << "glossary:" >> \o m.term,
     text        |-> m.term \o << ":", SP >> \o m.definition,
     section     |-> "glossary"]

\* Line 156
NotAnEntry(term) == term \in { << "Glossary" >>, << "Credits" >> }

RECURSIVE GlossaryChunks(_)
GlossaryChunks(ms) ==
    IF ms = << >> THEN << >>
    ELSE IF TooShort(Head(ms).definition) \/ NotAnEntry(Head(ms).term)
    THEN GlossaryChunks(Tail(ms))
    ELSE << GlossaryChunk(Head(ms)) >> \o GlossaryChunks(Tail(ms))

\* Lines 71-166
parse_rules(d) ==
    RuleChunks(d, RuleMatches(d, 1)) \o GlossaryChunks(TermMatches(GlossaryContent(d), 1))

\* parse_rules(content) is called: the first run, or a run on an edited text.
ParseRules ==
    /\ parsePc \in {"called", "called again"}
    /\ parsePc' = IF parsePc = "called" THEN "returned" ELSE "returned again"
    /\ parsed' = parse_rules(rules_content)
    /\ UNCHANGED <<rules_content, contentBefore, parsedBefore>>
    /\ UNCHANGED <<loopVars, rulesVars, searchVars, ingestVars, taskVars, laterVars>>

Inserted(d, i, w) == SubSeq(d, 1, i - 1) \o << w >> \o SubSeq(d, i, Len(d))

\* The texts that come from d by one change of whitespace: a whitespace
\* character more somewhere, or one whitespace character turned into another.
WhitespaceEdits(d) ==
    { Inserted(d, i, w) : i \in 1..(Len(d) + 1), w \in {SP, NL} }
    \cup { [d EXCEPT ![i] = w] : i \in { j \in 1..Len(d) : IsWs(d[j]) }, w \in {SP, NL} }

\* The ingestion is run again (main, lines 257-275) on a text that differs
\* from the last one in whitespace only.
Reformat(d) ==
    /\ parsePc = "returned"
    /\ d # rules_content
    /\ parsePc' = "called again"
    /\ contentBefore' = rules_content
    /\ parsedBefore' = parsed
    /\ rules_content' = d
    /\ UNCHANGED parsed
    /\ UNCHANGED <<loopVars, rulesVars, searchVars, ingestVars, taskVars, laterVars>>

(***************************************************************************)
(* The tasks of the bot's event loop.  asyncio runs one task at a time on  *)
(* one thread; a task gives the thread up only where it awaits.  A task is *)
(* a conversation (on_message) or the preload of the rules collection      *)
(* (on_ready); its call of get_rules_collection_async is that of the       *)
(* caller with the same number.  _load_rules_collection_sync runs in a     *)
(* pool thread and needs no turn of the loop.                              *)
(***************************************************************************)
LoopFree == running = 0

\* The task is inside get_rules_collection_async or mtg_rules_search and
\* the loop can give it a turn.
InRules(c) == LoopFree /\ tpc[c] \in {"awaiting_rules", "preloading"}

UnchangedByTask == UNCHANGED <<loopVars, rulesVars, searchVars, ingestVars, parseVars, laterVars>>

\* Lines 1128-1020: on_message goes on after typing(), calls ask_claude,
\* and ask_claude calls claude_client.messages.create.  claude_client is
\* anthropic.Anthropic() (line 197), whose create is an ordinary call, not
\* awaited: the task keeps the thread until the response is there.
StartAsk(c) ==
    /\ LoopFree
    /\ tpc[c] = "idle"
    /\ tpc' = [tpc EXCEPT ![c] = "in_model_call"]
    /\ running' = c
    /\ UnchangedByTask

\* Lines 1084-1092: on_ready makes the preload task, which awaits
\* get_rules_collection_async.
StartPreload(c) ==
    /\ LoopFree
    /\ tpc[c] = "idle"
    /\ tpc' = [tpc EXCEPT ![c] = "preloading"]
    /\ UNCHANGED running
    /\ UnchangedByTask

\* Lines 1014-1060 and 1138-1146: the response (or an APIError) is there;
\* the task runs on to its next await: a handler's HTTP call, the rules
\* collection, or message.reply.
ModelResponds(c, next) ==
    /\ tpc[c] = "in_model_call"
    /\ running = c
    /\ next = "awaiting_rules" => cpc[c] = "idle"
    /\ tpc' = [tpc EXCEPT ![c] = next]
    /\ running' = 0
    /\ UnchangedByTask

\* Lines 1040-1052 and 1012-1014: the handler's await ends, the results
\* are appended and the loop calls the model again, or is at its ceiling.
HandlerReturns(c, again) ==
    /\ LoopFree
    /\ \/ tpc[c] = "awaiting_http"
       \/ tpc[c] = "awaiting_rules" /\ cpc[c] = "answered"
    /\ tpc' = [tpc EXCEPT ![c] = IF again THEN "in_model_call" ELSE "replied"]
    /\ running' = IF again THEN c ELSE 0
    /\ UnchangedByTask

InitLoop ==
    /\ pc = "Idle"
    /\ messages = <<>>
    /\ iteration = 0
    /\ response = NoResponse
    /\ result = None
    /\ exc = None
    /\ reply = <<>>
    /\ modelCalls = 0
    /\ dispatched = 0
    /\ modelFailed = FALSE
    /\ raisedBlock = NoBlock
    /\ sent = << >>

InitRules ==
    /\ rules_collection = NoCollection
    /\ rules_loading = FALSE
    /\ cpc = [c \in Callers |-> "idle"]
    /\ cret = [c \in Callers |-> NoCollection]
    /\ tstate = [c \in Callers |-> "none"]
    /\ arrivedDuring = [c \in Callers |-> 0]
    /\ startedBy = [c \in Callers |-> 0]
    /\ loadsStarted = 0
    /\ loadsFailed = 0

InitSearch ==
    /\ answer = [c \in Callers |-> NoAnswer]
    /\ mcp_rules_collection = NoCollection
    /\ mcpLoads = 0
    /\ mcpLoadsFailed = 0
    /\ mcpAnswer = NoAnswer

InitTasks ==
    /\ tpc = [c \in Callers |-> "idle"]
    /\ running = 0

\* No rules search is running.
InitNoQuery ==
    /\ qpc = "idle"
    /\ corpus = {}
    /\ num_results = 0
    /\ results = NoResults
    /\ shown = NoShown

\* No decklist is being analysed.
InitNoCombos ==
    /\ combosPc = "idle"
    /\ limit = 0
    /\ response_format = "markdown"
    /\ included = << >>
    /\ almost = << >>
    /\ combosOut = NoCombos

\* No conversation has begun.
InitConversations ==
    /\ convPc = [c \in Conversations |-> "Idle"]
    /\ convMessages = [c \in Conversations |-> << >>]
    /\ convIteration = [c \in Conversations |-> 0]
    /\ convResponse = [c \in Conversations |-> NoResponse]
    /\ convResult = [c \in Conversations |-> None]
    /\ convSent = [c \in Conversations |-> << >>]

\* The tables as the module's import leaves them (lines 280-429, 983-992).
InitRegistry ==
    /\ tools = TOOLS
    /\ tool_functions = TOOL_FUNCTIONS

\* rules_ingestion.py is not running.
InitNoMain ==
    /\ mainPc = "idle"
    /\ localFile = FALSE
    /\ downloadFailed = FALSE
    /\ createCalled = FALSE

InitNoLater ==
    /\ InitNoMain
    /\ InitNoQuery
    /\ InitNoCombos
    /\ InitConversations
    /\ InitRegistry

\* No rebuild is running.
InitNoIngest ==
    /\ ingestPc = "idle"
    /\ chunks = << >>
    /\ persisted = NoPersisted
    /\ persistedBefore = NoPersisted
    /\ batchStart = 0

\* parse_rules is not running.
InitNoParse ==
    /\ parsePc = "idle"
    /\ rules_content = << >>
    /\ parsed = << >>
    /\ contentBefore = << >>
    /\ parsedBefore = << >>

Init ==
    /\ InitLoop
    /\ InitRules
    /\ InitSearch
    /\ InitNoIngest
    /\ InitNoParse
    /\ InitTasks
    /\ InitNoLater
    /\ dbExists = TRUE

Next ==
    \/ \E m \in UserMessages : OnMessage(m)
    \/ ModelCallFails
    \/ \E r \in ToolUseResponses(iteration + 1) :
         \E up \in UpstreamChoices(r.content) : ToolUseIteration(r, up)
    \/ \E r \in ToolUseResponses(iteration + 1) :
         \E up \in UpstreamChoices(r.content) : ToolUseRaises(r, up)
    \/ \E r \in FinalResponses(iteration + 1) : FinalIteration(r)

Spec == Init /\ [][Next]_vars

InitRulesSpec ==
    /\ InitLoop
    /\ InitRules
    /\ InitSearch
    /\ InitNoIngest
    /\ InitNoParse
    /\ InitTasks
    /\ InitNoLater
    /\ dbExists \in BOOLEAN

NextRules ==
    \/ \E c \in Callers : EnterCached(c)
    \/ \E c \in Callers : EnterNoDatabase(c)
    \/ \E c \in Callers : EnterWait(c)
    \/ \E c \in Callers : EnterLoad(c)
    \/ \E c \in Callers : LoadSync(c)
    \/ \E c \in Callers : LoadReturns(c)
    \/ \E c \in Callers : Poll(c)
    \/ DatabaseCreated
    \/ \E c \in Callers, q \in QueryOutcomes : RulesSearchQuery(c, q)
    \/ \E loaded \in BOOLEAN, q \in QueryOutcomes : McpRulesSearch(loaded, q)

SpecRules == InitRulesSpec /\ [][NextRules]_vars

\* get_rules_collection_async alone, lines 233-264, with its pool thread.
NextLoad ==
    \/ \E c \in Callers : EnterCached(c)
    \/ \E c \in Callers : EnterNoDatabase(c)
    \/ \E c \in Callers : EnterWait(c)
    \/ \E c \in Callers : EnterLoad(c)
    \/ \E c \in Callers : LoadSync(c)
    \/ \E c \in Callers : LoadReturns(c)
    \/ \E c \in Callers : Poll(c)
    \/ DatabaseCreated

\* The pool thread of a load runs to its end (the load attempt ends), and
\* the event loop resumes a coroutine whose await is over: the loader after
\* run_in_executor (line 261), a waiter after asyncio.sleep (line 252).
FairLoad ==
    \A c \in Callers :
        /\ WF_vars(LoadSync(c))
        /\ WF_vars(LoadReturns(c))
        /\ WF_vars(Poll(c))

SpecLoadFair == InitRulesSpec /\ [][NextLoad]_vars /\ FairLoad

\* The event loop with its tasks, and the pool thread of the load.
NextTasks ==
    \/ \E c \in Callers : StartAsk(c)
    \/ \E c \in Callers : StartPreload(c)
    \/ \E c \in Callers, next \in {"awaiting_http", "awaiting_rules", "replied"} :
         ModelResponds(c, next)
    \/ \E c \in Callers, again \in BOOLEAN : HandlerReturns(c, again)
    \/ \E c \in Callers : InRules(c) /\ EnterCached(c)
    \/ \E c \in Callers : InRules(c) /\ EnterNoDatabase(c)
    \/ \E c \in Callers : InRules(c) /\ EnterWait(c)
    \/ \E c \in Callers : InRules(c) /\ EnterLoad(c)
    \/ \E c \in Callers : LoadSync(c)
    \/ \E c \in Callers : InRules(c) /\ LoadReturns(c)
    \/ \E c \in Callers : InRules(c) /\ Poll(c)
    \/ \E c \in Callers, q \in QueryOutcomes :
         InRules(c) /\ tpc[c] = "awaiting_rules" /\ RulesSearchQuery(c, q)

SpecTasks == InitRulesSpec /\ [][NextTasks]_vars

\* create_database is called with some chunks on some database.
InitIngest ==
    /\ InitLoop
    /\ InitRules
    /\ InitSearch
    /\ ingestPc = "called"
    /\ chunks \in ChunkLists("new")
    /\ persisted \in PersistedStates
    /\ persistedBefore = persisted
    /\ batchStart = 0
    /\ dbExists \in BOOLEAN
    /\ persisted.exists => dbExists
    /\ InitNoParse
    /\ InitTasks
    /\ InitNoLater

NextIngest ==
    \/ OpenDatabase
    \/ \E ok \in BOOLEAN : DeleteCollection(ok)
    \/ \E ok \in BOOLEAN : CreateCollection(ok)
    \/ \E ok \in BOOLEAN : AddBatch(ok)

SpecIngest == InitIngest /\ [][NextIngest]_vars

\* rules_ingestion.py is started on some database, with or without a local
\* copy of the rules text.
InitMain ==
    /\ InitLoop
    /\ InitRules
    /\ InitSearch
    /\ ingestPc = "idle"
    /\ chunks = << >>
    /\ persisted \in PersistedStates
    /\ persistedBefore = persisted
    /\ batchStart = 0
    /\ dbExists \in BOOLEAN
    /\ persisted.exists => dbExists
    /\ InitNoParse
    /\ InitTasks
    /\ InitNoQuery
    /\ InitNoCombos
    /\ InitConversations
    /\ InitRegistry
    /\ mainPc = "started"
    /\ localFile \in BOOLEAN
    /\ downloadFailed = FALSE
    /\ createCalled = FALSE

NextMain ==
    \/ \E ok \in BOOLEAN : DownloadRules(ok)
    \/ \E readable \in BOOLEAN : LocalFallback(readable)
    \/ \E cs \in ChunkLists("new") : ParseAndCreate(cs)
    \/ OpenDatabase
    \/ \E ok \in BOOLEAN : DeleteCollection(ok)
    \/ \E ok \in BOOLEAN : CreateCollection(ok)
    \/ \E ok \in BOOLEAN : AddBatch(ok)
    \/ MainReturns

SpecMain == InitMain /\ [][NextMain]_vars

\* A rules-search handler has its collection and is called with num_results;
\* the MCP server's input model admits 1 <= num_results only.
InitQuery ==
    /\ InitLoop
    /\ InitRules
    /\ InitSearch
    /\ InitNoIngest
    /\ InitNoParse
    /\ InitTasks
    /\ dbExists = TRUE
    /\ qpc \in {"bot_called", "mcp_called"}
    /\ corpus \in Corpora
    /\ num_results \in 0..MaxResults
    /\ qpc = "mcp_called" => num_results >= 1
    /\ results = NoResults
    /\ shown = NoShown
    /\ InitNoCombos
    /\ InitConversations
    /\ InitRegistry
    /\ InitNoMain

NextQuery ==
    \/ \E res \in query(corpus, num_results) : BotQuery(res)
    \/ BotFormat
    \/ \E res \in query(corpus, num_results) : McpSearch(res)

SpecQuery == InitQuery /\ [][NextQuery]_vars

\* The handler is called and the upstream service reports some combos.
InitCombos ==
    /\ InitLoop
    /\ InitRules
    /\ InitSearch
    /\ InitNoIngest
    /\ InitNoParse
    /\ InitTasks
    /\ InitNoQuery
    /\ InitConversations
    /\ InitRegistry
    /\ InitNoMain
    /\ dbExists = TRUE
    /\ combosPc \in {"bot_called", "mcp_called"}
    /\ limit \in (-1)..MaxLimit
    /\ combosPc = "mcp_called" => limit >= 1
    /\ response_format \in ResponseFormats
    /\ combosPc = "bot_called" => response_format = "markdown"
    /\ included \in { ComboList("included", n) : n \in 0..MaxCombos }
    /\ almost \in { ComboList("almost_included", n) : n \in 0..MaxCombos }
    /\ combosOut = NoCombos

NextCombos ==
    \/ \E up \in Upstream : BotFindCombosInDecklist(up)
    \/ \E up \in Upstream : McpFindCombosInDecklist(up)

SpecCombos == InitCombos /\ [][NextCombos]_vars

\* The bot with two conversations, no message handled yet.
InitConversationsSpec ==
    /\ InitLoop
    /\ InitRules
    /\ InitSearch
    /\ InitNoIngest
    /\ InitNoParse
    /\ InitTasks
    /\ InitNoQuery
    /\ InitNoCombos
    /\ InitConversations
    /\ InitRegistry
    /\ InitNoMain
    /\ dbExists \in BOOLEAN

NextConversations ==
    \/ \E c \in Conversations : ConvOnMessage(c)
    \/ \E c \in Conversations :
         \E r \in ConvResponses(c, convIteration[c] + 1) : ConvModelCall(c, r)
    \/ \E c \in Conversations : ConvModelCallFails(c)
    \/ \E c \in Conversations, up \in Upstream : ConvToolReturns(c, up)
    \/ \E c \in Conversations : ConvInRules(c) /\ EnterCached(c)
    \/ \E c \in Conversations : ConvInRules(c) /\ EnterNoDatabase(c)
    \/ \E c \in Conversations : ConvInRules(c) /\ EnterWait(c)
    \/ \E c \in Conversations : ConvInRules(c) /\ EnterLoad(c)
    \/ \E c \in Conversations : LoadSync(c)
    \/ \E c \in Conversations : ConvInRules(c) /\ LoadReturns(c)
    \/ \E c \in Conversations : ConvInRules(c) /\ Poll(c)
    \/ \E c \in Conversations, q \in QueryOutcomes : ConvInRules(c) /\ RulesSearchQuery(c, q)

SpecConversations == InitConversationsSpec /\ [][NextConversations]_vars

\* parse_rules is called with some text.
InitParse ==
    /\ InitLoop
    /\ InitRules
    /\ InitSearch
    /\ InitNoIngest
    /\ InitTasks
    /\ InitNoLater
    /\ dbExists = FALSE
    /\ parsePc = "called"
    /\ rules_content \in Contents
    /\ parsed = << >>
    /\ contentBefore = << >>
    /\ parsedBefore = << >>

NextParse == ParseRules

SpecParse == InitParse /\ [][NextParse]_vars

\* parse_rules is called with some text, and again after a change of whitespace.
InitReparse ==
    /\ InitLoop
    /\ InitRules
    /\ InitSearch
    /\ InitNoIngest
    /\ InitTasks
    /\ InitNoLater
    /\ dbExists = FALSE
    /\ parsePc = "called"
    /\ rules_content \in ContentsOf(MaxEditedLines)
    /\ parsed = << >>
    /\ contentBefore = << >>
    /\ parsedBefore = << >>

NextReparse ==
    \/ ParseRules
    \/ \E d \in WhitespaceEdits(rules_content) : Reformat(d)

SpecReparse == InitReparse /\ [][NextReparse]_vars

(***************************************************************************)
(* Properties of the tool-use loop.                                        *)
(***************************************************************************)
\* Places of the assistant turns in the transcript; the message after each
\* is the one that answers it.
AssistantIndexes == { k \in 1..Len(messages) : messages[k].role = "assistant" }

ToolUsesOf(content) == SelectSeq(content, IsToolUse)

IdsOf(seq, field) == { seq[i][field] : i \in 1..Len(seq) }

Terminal == pc \in {"Ignored", "Done", "Exhausted", "Failed"}

C1_Bound ==
    /\ modelCalls = iteration
    /\ modelCalls <= max_iterations
    /\ pc = "AwaitingModel" => iteration < max_iterations
    /\ pc = "Exhausted" =>
         /\ modelCalls = max_iterations
         /\ result = ExhaustedFallback
         /\ reply = << ExhaustedFallback >>
    /\ Cardinality(AssistantIndexes) = max_iterations =>
         /\ pc = "Exhausted"
         /\ result = ExhaustedFallback

C1_Progress ==
    pc = "AwaitingModel" =>
        /\ modelCalls' = modelCalls + 1
        /\ iteration' = iteration + 1
        /\ pc' \in {"AwaitingModel", "Done", "Exhausted", "Failed"}

\* C1: ask_claude terminates: every step of the loop is one more model call
\* (one per iteration, never a retry), there are at most max_iterations of
\* them, and when every one of the max_iterations turns asked for tools the
\* loop has returned the fixed fallback text after exactly max_iterations calls.
C1_Terminates == []C1_Bound /\ [][C1_Progress]_vars

C1_Witness ==
    /\ pc = "Exhausted"
    /\ modelCalls = max_iterations
    /\ Cardinality(AssistantIndexes) = max_iterations
    /\ result = ExhaustedFallback

\* C2: every tool-results message holds exactly as many tool_result entries
\* as the assistant turn before it holds tool_use requests, and the
\* tool_use_ids of the results are the ids of the requests, one for one.
C2_ResultsMatchCalls ==
    \A k \in AssistantIndexes :
        /\ k + 1 <= Len(messages)
        /\ LET calls == ToolUsesOf(messages[k].content)
               res   == messages[k + 1].content
           IN  /\ Len(res) = Len(calls)
               /\ IdsOf(res, "tool_use_id") = IdsOf(calls, "id")
               /\ Cardinality(IdsOf(res, "tool_use_id")) = Len(res)

C2_Witness ==
    \E k \in AssistantIndexes :
        /\ k + 1 <= Len(messages)
        /\ Len(messages[k].content) = 3
        /\ Len(ToolUsesOf(messages[k].content)) = 2
        /\ Len(messages[k + 1].content) = 2
        /\ \E i \in 1..3 :
             /\ IsToolUse(messages[k].content[i])
             /\ messages[k].content[i].name = "unknown_tool"

\* C3: the i-th tool_result of a tool-results message answers the i-th
\* tool_use request of the turn before it: it carries that request's id and
\* what executing that request gives.
C3_ResultsInCallOrder ==
    \A k \in AssistantIndexes :
        LET calls == ToolUsesOf(messages[k].content)
            res   == messages[k + 1].content
        IN  \A i \in 1..Len(calls) :
                /\ i <= Len(res)
                /\ res[i].tool_use_id = calls[i].id
                /\ \E u \in Upstream :
                     res[i].content = ExecuteTool(calls[i].name, calls[i].input, u).value

C3_Witness ==
    \E k \in AssistantIndexes :
        LET calls == ToolUsesOf(messages[k].content)
            res   == messages[k + 1].content
        IN  /\ Len(calls) = 2
            /\ calls[1].name = "spellbook_find_combos_for_cards"
            /\ calls[2].name = "unknown_tool"
            /\ res[1].content = "Error searching combos: upstream failure"
            /\ res[2].content = "Unknown tool: unknown_tool"

C4_Shape ==
    pc \notin {"Idle", "Ignored"} =>
        /\ Len(messages) >= 1
        /\ Len(messages) % 2 = 1
        /\ messages[1].role = "user"
        /\ messages[1].content \in UserMessages \ {""}
        /\ \A k \in 2..Len(messages) :
             IF k % 2 = 0
             THEN /\ messages[k].role = "assistant"
                  /\ \A i \in 1..Len(messages[k].content) :
                       messages[k].content[i].type \in {"text", "tool_use"}
             ELSE /\ messages[k].role = "user"
                  /\ \A i \in 1..Len(messages[k].content) :
                       messages[k].content[i].type = "tool_result"
                  /\ IdsOf(messages[k].content, "tool_use_id")
                       = IdsOf(ToolUsesOf(messages[k - 1].content), "id")

C4_Append ==
    \/ messages' = messages
    \/ /\ messages = << >>
       /\ Len(messages') = 1
    \/ /\ messages # << >>
       /\ Len(messages') = Len(messages) + 2
       /\ SubSeq(messages', 1, Len(messages)) = messages
       /\ messages'[Len(messages) + 1] = AssistantTurn(response'.content)
       /\ messages'[Len(messages) + 2].role = "user"

\* C4: the transcript is [UserText(input)] followed by (AssistantTurn,
\* ToolResults) pairs, each ToolResults message right after the turn it
\* answers; a step leaves it alone or appends exactly one such pair after the
\* messages already there, which it neither removes nor changes.
C4_TranscriptAppendOnly == []C4_Shape /\ [][C4_Append]_vars

C4_Witness ==
    /\ Len(messages) = 5
    /\ messages[2].role = "assistant"
    /\ messages[3].role = "user"
    /\ messages[4].role = "assistant"
    /\ messages[5].role = "user"

IsErrorResult(tr) == "is_error" \in DOMAIN tr /\ tr.is_error = TRUE

UnknownAnswers ==
    { a \in AssistantIndexes \X (1..3) : LET k == a[1] i == a[2] IN
        /\ i <= Len(ToolUsesOf(messages[k].content))
        /\ ToolUsesOf(messages[k].content)[i].name \notin TOOL_FUNCTIONS }

HasUnknownCall(content) ==
    \E i \in ToolUsePositions(content) : content[i].name \notin TOOL_FUNCTIONS

Binds(block) == block.input \notin {"missing_required", "undeclared_arg"}

\* C6: a failure raised by a tool handler never ends the loop: a turn of n
\* tool calls whose handlers were all entered gives a tool-results message
\* of n results.
C6_HandlerFailureBecomesResult ==
    ( /\ response.stop_reason = "tool_use"
      /\ ~modelFailed
      /\ \A i \in ToolUsePositions(response.content) : Binds(response.content[i]) )
    => /\ pc # "Failed"
       /\ Len(messages) = 1 + 2 * iteration
       /\ Len(messages[Len(messages)].content) = Len(ToolUsesOf(response.content))

\* C7: a tool call whose arguments break the declared input schema becomes
\* an ordinary tool_result; it is never the call that ends ask_claude with
\* an exception.
C7_SchemaViolationBecomesResult ==
    raisedBlock.type = "tool_use" => raisedBlock.input = "valid"

NormalReturns == Texts \cup {NoTextPlaceholder, ExhaustedFallback}

\* C8: when a call of the reasoning model fails, ask_claude makes no further
\* call and returns nothing: the failure leaves it as an exception, which no
\* return value can be taken for, and on_message replies with an apology;
\* a run that returned has no exception and replies with what was returned.
C8_ModelFailurePropagates ==
    /\ modelFailed =>
         /\ pc = "Failed"
         /\ exc = "APIError"
         /\ result = None
         /\ modelCalls = iteration
         /\ reply = << ApiErrorApology >>
         /\ ApiErrorApology \notin NormalReturns
    /\ pc \in {"Done", "Exhausted"} =>
         /\ ~modelFailed
         /\ exc = None
         /\ result \in NormalReturns
         /\ reply = << result >>

C8_Witness ==
    /\ modelFailed
    /\ iteration = max_iterations
    /\ Len(messages) = 2 * max_iterations - 1
    /\ reply = << ApiErrorApology >>

TextPositions(content) == { i \in 1..Len(content) : HasText(content[i]) }

ToolUsesInTranscript(k) ==
    IF k \in AssistantIndexes THEN Len(ToolUsesOf(messages[k].content)) ELSE 0

RECURSIVE SumToolUses(_)
SumToolUses(k) == IF k < 1 THEN 0 ELSE ToolUsesInTranscript(k) + SumToolUses(k - 1)

\* The statement of C9 as written: the result is text of the response.
C9_ReturnsTextOfResponse ==
    (pc = "Done" /\ ToolUsePositions(response.content) = {}) =>
        \E i \in TextPositions(response.content) : result = response.content[i].text

\* C9 (amended): a response that does not stop for tool use ends ask_claude
\* in Done at that step: no tool of it is executed, nothing is appended to
\* the transcript, and the result is the text of the first block that has
\* text, or the fixed placeholder when the response has no such block.
C9_FinalAnswer ==
    /\ pc = "Done" =>
         /\ response.stop_reason \notin {"tool_use", None}
         /\ IF TextPositions(response.content) = {}
            THEN result = NoTextPlaceholder
            ELSE \E i \in TextPositions(response.content) :
                   /\ result = response.content[i].text
                   /\ \A j \in TextPositions(response.content) : i <= j
         /\ Len(messages) = 1 + 2 * (iteration - 1)
         /\ dispatched = SumToolUses(Len(messages))
         /\ reply = << result >>
    /\ (response.stop_reason \notin {"tool_use", None} /\ ~modelFailed) => pc = "Done"

C9_Witness ==
    /\ pc = "Done"
    /\ Len(messages) = 3
    /\ Len(response.content) = 2
    /\ TextPositions(response.content) = {1, 2}
    /\ response.content[1].text = "t2"
    /\ result = "t2"

C25_Consistent ==
    /\ tools = tool_functions
    /\ \A k \in AssistantIndexes :
         LET calls == ToolUsesOf(messages[k].content)
             res   == messages[k + 1].content
         IN  \A i \in 1..Len(calls) :
                 calls[i].name \in tools =>
                     res[i].content # "Unknown tool: " \o calls[i].name

C25_Immutable ==
    /\ tools' = tools
    /\ tool_functions' = tool_functions

\* C25: the names declared to the model (TOOLS) are the names that have a
\* handler (TOOL_FUNCTIONS), so the result of a call of a declared tool is
\* never the "Unknown tool" text, and no step of on_message or ask_claude
\* changes either table.
C25_RegistryConsistent == []C25_Consistent /\ [][C25_Immutable]_vars

C25_Witness ==
    /\ pc = "Exhausted"
    /\ tools = TOOLS
    /\ \E k \in AssistantIndexes :
         LET calls == ToolUsesOf(messages[k].content)
             res   == messages[k + 1].content
         IN  /\ Len(calls) = 2
             /\ calls[1].name \in tools
             /\ res[1].content = "Found combos"
             /\ calls[2].name \notin tools
             /\ res[2].content = "Unknown tool: unknown_tool"

ResultIds(msgs) ==
    UNION { IdsOf(msgs[k].content, "tool_use_id") :
              k \in { j \in 2..Len(msgs) : msgs[j].role = "user" } }

C26_NotExecuted ==
    (response.stop_reason \notin {"tool_use", None} /\ ~modelFailed) =>
        /\ pc = "Done"
        /\ IdsOf(ToolUsesOf(response.content), "id") \cap ResultIds(messages) = {}
        /\ \A k \in AssistantIndexes : messages[k].content # response.content
        /\ dispatched = SumToolUses(Len(messages))

C26_OnlyToolUseTurns ==
    /\ dispatched' > dispatched =>
         /\ response'.stop_reason = "tool_use"
         /\ dispatched' - dispatched <= Len(ToolUsesOf(response'.content))
    /\ (response' # response /\ response'.stop_reason # "tool_use") =>
         /\ pc' = "Done"
         /\ dispatched' = dispatched
         /\ messages' = messages

\* C26: a step executes tool_use blocks only when the response it got has
\* stop_reason "tool_use", and then only blocks of that response; a response
\* with any other stop reason ends the loop in Done at that step, also when
\* its content holds tool_use blocks: none of them is executed, the turn is
\* not appended and no tool_result answers any of them.
C26_ToolsOnlyOnToolUse == []C26_NotExecuted /\ [][C26_OnlyToolUseTurns]_vars

C26_Witness ==
    /\ pc = "Done"
    /\ response.stop_reason = "max_tokens"
    /\ ToolUsePositions(response.content) = {1}
    /\ iteration = 2
    /\ dispatched = 3
    /\ result = "t2"

C27_AllTurnsExecuted ==
    pc = "Exhausted" =>
        /\ modelCalls = max_iterations
        /\ Len(messages) = 1 + 2 * max_iterations
        /\ Cardinality(AssistantIndexes) = max_iterations
        /\ messages[2 * max_iterations] = AssistantTurn(response.content)
        /\ LET calls == ToolUsesOf(response.content)
               res   == messages[2 * max_iterations + 1].content
           IN  /\ Len(res) = Len(calls)
               /\ \A i \in 1..Len(calls) : res[i].tool_use_id = calls[i].id
        /\ dispatched = SumToolUses(Len(messages))
        /\ sent = SubSeq(messages, 1, 2 * max_iterations - 1)
        /\ result = ExhaustedFallback
        /\ reply = << ExhaustedFallback >>

C27_SentBeforeAppended ==
    /\ modelCalls' = modelCalls + 1 =>
         /\ sent' = messages
         /\ Len(sent') = 2 * modelCalls + 1
    /\ modelCalls' = modelCalls => sent' = sent
    /\ pc = "Exhausted" => modelCalls' = modelCalls

\* C27: when ask_claude ends Exhausted, max_iterations model calls have been
\* made and the tool calls of every one of these turns, the last included,
\* have been executed and their results appended (the transcript holds
\* 1 + 2 * max_iterations messages) when the fallback text is returned; the
\* last model call was sent the transcript without the last turn and its
\* results, and no model call follows.
C27_ExhaustedAfterLastDispatch == []C27_AllTurnsExecuted /\ [][C27_SentBeforeAppended]_vars

C27_Witness ==
    /\ pc = "Exhausted"
    /\ Len(messages) = 1 + 2 * max_iterations
    /\ Len(messages[Len(messages)].content) = 3
    /\ Len(sent) = 2 * max_iterations - 1
    /\ result = ExhaustedFallback

(***************************************************************************)
(* Properties of the rules collection.                                     *)
(***************************************************************************)
Returned(c) == cpc[c] \in {"returned", "answered"}

LoadEnded(k) == \E c \in Callers : startedBy[c] = k /\ tstate[c] = "done"

LoaderOf(k) == CHOOSE l \in Callers : startedBy[l] = k

\* C11: a caller that came while a load was in flight gets what the caller
\* that ran that load gets: both the collection or both None.
C11_WaitersShareOutcome ==
    \A w \in Callers :
        (arrivedDuring[w] # 0 /\ Returned(w) /\ Returned(LoaderOf(arrivedDuring[w]))) =>
            cret[w] = cret[LoaderOf(arrivedDuring[w])]

\* C12 as stated: in the life of a process the load function runs at most
\* once, also after a load that failed.
C12_LoadedAtMostOnce ==
    /\ loadsStarted <= 1
    /\ mcpLoads <= 1

C12_Loads ==
    /\ loadsStarted <= loadsFailed + 1
    /\ rules_collection # NoCollection =>
         /\ loadsStarted = loadsFailed + 1
         /\ \E k \in 1..loadsStarted : rules_collection = Handle(k)
    /\ mcpLoads <= mcpLoadsFailed + 1
    /\ mcp_rules_collection # NoCollection <=> mcpLoads = mcpLoadsFailed + 1
    /\ mcp_rules_collection # NoCollection => mcp_rules_collection = Handle(mcpLoads)

C12_ReadOnlyOnceLoaded ==
    /\ rules_collection # NoCollection =>
         /\ rules_collection' = rules_collection
         /\ loadsStarted' = loadsStarted
    /\ mcp_rules_collection # NoCollection =>
         /\ mcp_rules_collection' = mcp_rules_collection
         /\ mcpLoads' = mcpLoads

\* C12: in each process the load function runs again only when every run
\* before it ended without a collection; at most one run stores a
\* collection, and once one is stored no load is started and the stored
\* handle is never replaced.
C12_LoadedUntilSuccess == []C12_Loads /\ [][C12_ReadOnlyOnceLoaded]_vars

C12_Witness ==
    /\ loadsStarted = 2
    /\ loadsFailed = 1
    /\ rules_collection = Handle(2)
    /\ \E c \in Callers :
         /\ Returned(c)
         /\ startedBy[c] = 0
         /\ arrivedDuring[c] = 0
         /\ cret[c] = Handle(2)
    /\ mcpLoads = 2
    /\ mcpLoadsFailed = 1
    /\ mcp_rules_collection = Handle(2)
    /\ mcpAnswer = Return(McpRulesFound)

\* C13: mtg_rules_search never raises, in the bot or in the MCP server:
\* without a collection (no database, or a load that failed) it returns
\* the "not available" text, and with one it returns what was found, that
\* nothing was found, or the text of the query's failure.
C13_SearchDegradesToText ==
    /\ \A c \in Callers :
         IF cpc[c] = "answered"
         THEN /\ ~answer[c].raised
              /\ cret[c] = NoCollection => answer[c].value = RulesNotAvailable
              /\ cret[c] # NoCollection =>
                   answer[c].value \in {RulesFound, NoRulesFound, ErrorSearching}
         ELSE answer[c] = NoAnswer
    /\ ~mcpAnswer.raised
    /\ (mcpAnswer # NoAnswer /\ mcp_rules_collection = NoCollection) =>
         mcpAnswer.value = McpRulesNotFound
    /\ mcp_rules_collection # NoCollection =>
         mcpAnswer.value \in {McpRulesFound, McpNoRulesFound, McpErrorSearching}

C13_Witness ==
    /\ \E c \in Callers :
         /\ cpc[c] = "answered"
         /\ startedBy[c] # 0
         /\ cret[c] = NoCollection
         /\ answer[c] = Return(RulesNotAvailable)
    /\ \E c \in Callers :
         /\ cpc[c] = "answered"
         /\ cret[c] # NoCollection
         /\ answer[c] = Return(ErrorSearching)
    /\ mcpLoadsFailed > 0
    /\ mcpAnswer = Return(McpRulesNotFound)

C28_CachedStep ==
    rules_collection # NoCollection =>
        /\ rules_collection' = rules_collection
        /\ \A c \in Callers :
             (cpc[c] = "idle" /\ cpc'[c] # "idle") =>
                 /\ cpc'[c] = "returned"
                 /\ cret'[c] = rules_collection
                 /\ loadsStarted' = loadsStarted
                 /\ startedBy'[c] = 0
                 /\ arrivedDuring'[c] = 0
                 /\ tstate' = tstate
                 /\ rules_loading' = rules_loading

C28_CachedCallers ==
    \A c \in Callers :
        /\ (cpc[c] = "loading" /\ rules_collection # NoCollection) =>
              rules_collection = Handle(startedBy[c])
        /\ (Returned(c) /\ cret[c] # NoCollection) => cret[c] = rules_collection

\* C28: once _rules_collection holds a collection no step resets or
\* replaces it, and a call of get_rules_collection_async that begins from
\* then on returns that handle in the step it begins with, starting no load
\* and never waiting, also while the loading flag is still set; the only
\* caller that can still be loading then is the one whose load stored the
\* collection, and a handle that was returned is the cached one for good.
C28_CachedForGood == []C28_CachedCallers /\ [][C28_CachedStep]_vars

C28_Witness ==
    /\ rules_collection = Handle(1)
    /\ rules_loading
    /\ \E c \in Callers :
         /\ cpc[c] = "returned"
         /\ startedBy[c] = 0
         /\ arrivedDuring[c] = 0
         /\ cret[c] = Handle(1)
    /\ \E c \in Callers : cpc[c] = "loading"
    /\ \E c \in Callers : cpc[c] = "waiting"

\* C29: provided every load attempt ends, every call of
\* get_rules_collection_async returns.  The flag is set exactly while a
\* caller is between line 255 and the finally of line 264; the step that
\* ends a load attempt resets it whether the thread cached a collection or
\* ended without one (no database, or an exception caught at line 228); and
\* a call that has begun, as loader or as waiter, gets to its return.
InCall(c) == cpc[c] \in {"loading", "waiting"}

C29_FlagOnlyInFlight ==
    /\ rules_loading <=> (\E c \in Callers : cpc[c] = "loading")
    /\ Cardinality({c \in Callers : cpc[c] = "loading"}) <= 1

C29_ResetWhenLoadEnds ==
    /\ \A c \in Callers :
         (cpc[c] = "loading" /\ cpc'[c] # "loading") =>
             /\ tstate[c] = "done"
             /\ ~rules_loading'
             /\ cpc'[c] = "returned"
             /\ cret'[c] = rules_collection
    /\ (rules_loading /\ ~rules_loading') =>
         \E c \in Callers : cpc[c] = "loading" /\ cpc'[c] = "returned"

NoContent == downloadFailed /\ ~localFile /\ mainPc = "returned"

NoChunks == mainPc = "returned" /\ chunks = << >>

C30_NotRebuilt ==
    /\ (NoContent \/ NoChunks) =>
         /\ ~createCalled
         /\ ingestPc = "idle"
         /\ persisted = persistedBefore
    /\ NoContent => chunks = << >>
    /\ createCalled => (chunks # << >> /\ (~downloadFailed \/ localFile))
    /\ ingestPc # "idle" => createCalled

C30_RebuildNeedsChunks ==
    (persisted' # persisted \/ dbExists' # dbExists) =>
        (createCalled /\ chunks # << >> /\ mainPc = "creating")

C30_NoChunksNoRebuild == []C30_NotRebuilt /\ [][C30_RebuildNeedsChunks]_vars

\* The download failed, the local copy was read, parse_rules found no rule
\* in it, and main has returned with a filled collection on disk.
C30_Witness ==
    /\ NoChunks
    /\ downloadFailed /\ localFile
    /\ persisted.exists /\ Len(persisted.entries) >= 2

(***************************************************************************)
(* Properties of concurrent conversations.                                 *)
(***************************************************************************)
\* Every message of the transcript t is one that conversation c made: its
\* user message, turns of the model's answers to it, and results of its calls.
TranscriptOwnedBy(c, t) ==
    \A k \in 1..Len(t) :
        IF k = 1 THEN t[k] = UserText(ConvUserMessage(c))
        ELSE IF t[k].role = "assistant"
        THEN \A i \in ToolUsePositions(t[k].content) : t[k].content[i].id[1] = c
        ELSE \A i \in 1..Len(t[k].content) : t[k].content[i].tool_use_id[1] = c

IsPrefix(a, b) == Len(a) <= Len(b) /\ SubSeq(b, 1, Len(a)) = a

\* What belongs to conversation c alone.
ConvLocals(c) ==
    << convPc[c], convMessages[c], convIteration[c], convResponse[c], convResult[c],
       convSent[c], cpc[c], cret[c], answer[c] >>

C22_OwnTranscript ==
    \A c \in Conversations :
        /\ TranscriptOwnedBy(c, convMessages[c])
        /\ TranscriptOwnedBy(c, convSent[c])
        /\ IsPrefix(convSent[c], convMessages[c])
        /\ convIteration[c] > 0 => Len(convSent[c]) = 2 * convIteration[c] - 1

C22_OneConversationPerStep ==
    \A c, u \in Conversations :
        (c # u /\ ConvLocals(c)' # ConvLocals(c)) =>
            /\ ConvLocals(u)' = ConvLocals(u)
            /\ IsPrefix(convMessages[c], convMessages'[c])

\* C22: each of two concurrent conversations has a transcript of its own:
\* every message of it, and every message of every model call the
\* conversation makes, is its own user message, a turn of the model's
\* answers to it or the results of its own tool calls; a step that changes
\* what belongs to one conversation (transcript, response, counter, result,
\* its call of the rules collection) changes nothing of the other; what the
\* two share is the cached rules collection and its loading flag.
C22_ConversationsIndependent ==
    []C22_OwnTranscript /\ [][C22_OneConversationPerStep]_vars

C22_Witness ==
    /\ \A c \in Conversations :
         /\ convPc[c] = "Done"
         /\ Len(convSent[c]) = 3
         /\ cret[c] = Handle(1)
    /\ startedBy[1] = 1
    /\ arrivedDuring[2] = 1
    /\ convMessages[1] # convMessages[2]

(***************************************************************************)
(* Properties of the rules query.                                          *)
(***************************************************************************)
EntryOf(rule_number) == CHOOSE e \in RuleEntries : e.rule_number = rule_number

ShownEntries == [i \in 1..Len(shown.lines) |-> EntryOf(shown.lines[i].rule_num)]

QueryHandled == qpc \in {"bot_returned", "mcp_returned"}

C23_AtMostLimitCombos ==
    (combosPc \in {"bot_returned", "mcp_returned"} /\ limit >= 1) =>
        Len(combosOut.complete) + Len(combosOut.almost_complete) <= limit

(***************************************************************************)
(* Properties of the rebuild.                                              *)
(***************************************************************************)
NewSet == [exists |-> TRUE, entries |-> EntriesOf(chunks)]

\* C14: at every point of a rebuild, and after one that failed part-way,
\* the persisted collection is the complete old set or the complete new set.
C14_AtomicReplace == persisted \in {persistedBefore, NewSet}

IsNewEntry(e, i) ==
    /\ e.id = "rule_" \o ToString(i)
    /\ e.document = chunks[i + 1].text
    /\ e.metadata = [rule_number  |-> chunks[i + 1].rule_number,
                     section      |-> chunks[i + 1].section,
                     section_name |-> chunks[i + 1].section_name]

C24_NewEntriesOnly ==
    /\ ingestPc \in {"adding", "done"} =>
         /\ persisted.exists
         /\ Len(persisted.entries) = Min(batchStart, Len(chunks))
         /\ \A k \in 1..Len(persisted.entries) : IsNewEntry(persisted.entries[k], k - 1)
    /\ ingestPc = "done" =>
         /\ Len(persisted.entries) = Len(chunks)
         /\ \A i, j \in 1..Len(persisted.entries) :
              persisted.entries[i].id = persisted.entries[j].id => i = j

C24_Batches ==
    /\ Len(persisted'.entries) <= Len(persisted.entries) + batch_size
    /\ ingestPc = "opened" => persisted' \in {persisted, NoPersisted}
    /\ (ingestPc = "adding" /\ persisted' # persisted) =>
         /\ IsPrefix(persisted.entries, persisted'.entries)
         /\ Len(persisted'.entries) > Len(persisted.entries)

\* C24: create_database first deletes the collection that is there, then
\* creates it anew and adds the chunks in consecutive batches of at most
\* batch_size: from the creation on the collection holds, in input order,
\* the first chunks only, chunk i under the id rule_<i> with its text and
\* the metadata {rule_number, section, section_name}; when create_database
\* has finished it holds every chunk once, under pairwise distinct ids, and
\* no entry of the old collection.
C24_FullRebuild == []C24_NewEntriesOnly /\ [][C24_Batches]_vars

C24_Witness ==
    /\ ingestPc = "done"
    /\ Len(chunks) = MaxChunks
    /\ Len(chunks) > batch_size
    /\ Len(persistedBefore.entries) = MaxChunks
    /\ persisted = NewSet
    /\ persisted # persistedBefore

(***************************************************************************)
(* Properties of parse_rules.                                              *)
(***************************************************************************)
ParseReturned == parsePc \in {"returned", "returned again"}

\* C15: the chunks that parse_rules returns have pairwise distinct rule_numbers.
C15_UniqueRuleNumbers ==
    ParseReturned =>
        \A i, j \in 1..Len(parsed) :
            parsed[i].rule_number = parsed[j].rule_number => i = j

IsNumbered(c) == c.section # "glossary"

IsGlossary(c) == c.section = "glossary"

LongEnough(text) == StrLen(text) >= 20

KeptRule(m) == LongEnough(CollapseWs(Strip(m.body)))

HeaderPositions(d, sec) ==
    { i \in 1..Len(d) : HeaderAt(d, i) /\ SectionOf(d[i]) = sec }

\* C16: the numbered chunks are the rule entries that are kept, in order;
\* the text of each is the collapsed body of its entry, with
\* "<Title> (<section>): " before it when the text has a header line of the
\* entry's section (<Title> being the title of such a line), and bare when
\* it has none.
C16_SectionPrefix ==
    ParseReturned =>
        LET nums == SelectSeq(parsed, IsNumbered)
            kept == SelectSeq(RuleMatches(rules_content, 1), KeptRule)
        IN  /\ Len(nums) = Len(kept)
            /\ \A k \in 1..Len(nums) :
                 LET body == CollapseWs(Strip(kept[k].body))
                     sec  == SectionOf(kept[k].rule_number)
                 IN  /\ k <= Len(kept)
                     /\ nums[k].rule_number = << kept[k].rule_number >>
                     /\ nums[k].section = sec
                     /\ IF HeaderPositions(rules_content, sec) = {}
                        THEN nums[k].text = body
                        ELSE \E i \in HeaderPositions(rules_content, sec) :
                               /\ nums[k].section_name = HeaderTitle(rules_content, i)
                               /\ nums[k].text =
                                    HeaderTitle(rules_content, i)
                                    \o << SP, "(" \o sec \o "):", SP >> \o body

C16_Witness ==
    /\ parsePc = "returned"
    /\ rules_content = << "100.", SP, "General", NL,
                          "100.1", SP, "The Magic rules apply.", NL,
                          "100.2", SP, "short", NL,
                          "200.1", SP, "A two-player game begins." >>
    /\ Len(parsed) = 2
    /\ parsed[1].rule_number = << "100.1" >>
    /\ parsed[1].text = << "General", SP, "(100):", SP, "The Magic rules apply." >>
    /\ parsed[2].rule_number = << "200.1" >>
    /\ parsed[2].text = << "A two-player game begins." >>

HasNewline(text) == \E i \in 1..Len(text) : text[i] = NL

HasWhitespaceRun(text) == \E i \in 1..(Len(text) - 1) : IsWs(text[i]) /\ IsWs(text[i + 1])

\* C17: the text of every chunk is not empty, has no newline in it and no
\* two whitespace characters in a row, the title or term before the body
\* included.
C17_TextCollapsed ==
    ParseReturned =>
        \A k \in 1..Len(parsed) :
            /\ StrLen(parsed[k].text) > 0
            /\ ~HasNewline(parsed[k].text)
            /\ ~HasWhitespaceRun(parsed[k].text)

RuleNumbersOf(cs) == { cs[k].rule_number : k \in 1..Len(cs) }

\* C18: two texts that differ in whitespace only give the same set of
\* rule_numbers.
C18_WhitespaceInsensitive ==
    parsePc = "returned again" => RuleNumbersOf(parsed) = RuleNumbersOf(parsedBefore)

KeptTerm(m) ==
    /\ LongEnough(m.definition)
    /\ m.term \notin { << "Glossary" >>, << "Credits" >> }

NumbersIn(cs) == [k \in 1..Len(cs) |-> cs[k].rule_number]

\* C19: the numbered chunks are, in order, the rule entries whose collapsed
\* body has 20 characters or more; after them come the glossary chunks,
\* which are, in order, the glossary entries whose collapsed definition has
\* 20 characters or more and whose term is neither "Glossary" nor
\* "Credits"; a glossary chunk has rule_number "glossary:<term>" and
\* section "glossary".
C19_MinimumLength ==
    ParseReturned =>
        LET nums  == SelectSeq(parsed, IsNumbered)
            glos  == SelectSeq(parsed, IsGlossary)
            rules == SelectSeq(RuleMatches(rules_content, 1), KeptRule)
            terms == SelectSeq(TermMatches(GlossaryContent(rules_content), 1), KeptTerm)
        IN  /\ parsed = nums \o glos
            /\ NumbersIn(nums) = [k \in 1..Len(rules) |-> << rules[k].rule_number >>]
            /\ NumbersIn(glos) = [k \in 1..Len(terms) |-> << "glossary:" >> \o terms[k].term]
            /\ \A k \in 1..Len(parsed) :
                 parsed[k].rule_number \notin
                     { << "glossary:", "Glossary" >>, << "glossary:", "Credits" >> }

C19_Witness ==
    /\ parsePc = "returned"
    /\ rules_content = << "100.2", SP, "short", NL,
                          "Glossary", NL,
                          "100.1", SP, "The Magic rules apply.", NL,
                          "Credits", NL, "Magic was designed by Richard Garfield." >>
    /\ Len(RuleMatches(rules_content, 1)) = 2
    /\ Len(TermMatches(GlossaryContent(rules_content), 1)) = 2
    /\ \A k \in 1..2 : LongEnough(TermMatches(GlossaryContent(rules_content), 1)[k].definition)
    /\ Len(parsed) = 1
    /\ parsed[1].rule_number = << "100.1" >>

(***************************************************************************)
(* Properties of the event loop.                                           *)
(***************************************************************************)
\* The task waits for the model, for a handler's HTTP call, or for the
\* rules collection or its query.
Waiting(c) == tpc[c] \in {"in_model_call", "awaiting_http", "awaiting_rules"}

\* C20: while a conversation waits for the model's response, for a
\* handler's I/O or for the rules collection, the other tasks can take
\* their steps: a conversation whose message has come can begin, and a
\* caller whose sleep in the polling loop is over can test the flag again.
C20_WaitsAreSuspensionPoints ==
    \A c, u \in Callers :
        (c # u /\ Waiting(c)) =>
            /\ tpc[u] = "idle" => ENABLED StartAsk(u)
            /\ (tpc[u] \in {"awaiting_rules", "preloading"} /\ cpc[u] = "waiting") =>
                 ENABLED (InRules(u) /\ Poll(u))

====
